---- MODULE Spec2Model ----
(***************************************************************************)
(* The anchor daemon of stateset/set (anchor/src): the control loop of     *)
(* AnchorService::run with its statistics record, its circuit breaker and  *)
(* its health state, together with the two collaborators it talks to: the  *)
(* sequencer's pending list and the registry on the chain.                 *)
(*                                                                         *)
(* One action is one stretch of the loop between two suspension points or  *)
(* two critical sections; pc is the loop's position.  Option<T> values are *)
(* sequences: <<>> is None, <<x>> is Some(x).  Time is the number of       *)
(* seconds since the process started; it advances in the two sleeps.       *)
(***************************************************************************)
EXTENDS Integers, Sequences, FiniteSets, TLC

\* ------------------------------------------------------------------ bounds
\* Cycles one process runs before it is stopped (and may be started again).
MaxCycles == 3
\* Cycles one process runs while the sequencer has nothing pending.
MaxIdleCycles == 5
\* Batches the sequencer has produced, at most.
NumBatches == 2
\* Largest max_commitments_per_cycle tried (0 = unlimited is always tried).
MaxCommitCap == 1
MaxRecorded == 2
\* HTTP requests the server has in flight at once, at most.
MaxRequests == 2
\* Breaker settings (AnchorConfig::circuit_breaker_*), kept small.
circuit_breaker_failure_threshold == 2
circuit_breaker_reset_timeout_secs == 2
circuit_breaker_half_open_success_threshold == 2

\* ------------------------------------------------- configuration constants
anchor_interval_secs == 1
retry_delay_secs == 1
max_retries == 3
min_events_for_anchor == 10
MAX_RECENT_ERRORS == 100
\* ready_handler: a mark counts while it is less than 60 s old.
FreshSecs == 60
\* errors_handler: get_recent_errors(20).
ErrorsLimit == 20
GWEI == 1000000000

\* Event counts a batch may carry: one below the threshold, one at it.
EventCounts == {5, 10}
\* Settings of max_gas_price_gwei: 0 disables the gate (2 gwei keeps the
\* ceiling in wei within the checker's 32-bit integers).
GasCeilings == {0, 2}
\* The chain the daemon is connected to.
L2ChainId == 84532001

None == <<>>
Some(x) == <<x>>

VARIABLES
    config,        \* AnchorConfig: the settings that vary between runs
    pc,            \* position of AnchorService::run
    stats,         \* Arc<RwLock<AnchorStats>>
    breaker,       \* Arc<RwLock<CircuitBreaker>>
    health,        \* the HealthState handed to with_health_state
    loc,           \* locals of run / anchor_pending / anchor_with_retry
    now,           \* seconds since the process started
    pending,       \* sequencer: the pending commitments, in listing order
    notifications, \* sequencer: the notifications it accepted
    committed,     \* registry: batch ids recorded on the chain
    healthy,       \* environment: TRUE once no call fails any more
    calls,         \* history: outbound calls made in the current cycle
    hist,          \* history: what the claims need of the process's past
    served,        \* the HealthState the HTTP server's handlers read
    http,          \* the last HTTP response the server gave
    locks          \* the RwLocks: who holds which, and who waits

vars == <<config, pc, stats, breaker, health, loc, now, pending, notifications,
          committed, healthy, calls, hist, served, http, locks>>

BatchIds == 1..NumBatches

\* ------------------------------------------------------------------ batches
\* The text "0x", the shortest text of the zero root.
ZeroRootText == <<"0", "x">>

Batch(i, ec) ==
    [batch_id |-> i,
     tenant_id |-> (i + 1) \div 2,
     store_id |-> (i + 1) \div 2,
     prev_state_root |-> ZeroRootText,
     new_state_root |-> ZeroRootText,
     events_root |-> ZeroRootText,
     sequence_start |-> (i - 1) * 10 + 1,
     sequence_end |-> i * 10,
     event_count |-> ec]

\* The backlogs a sequencer can hold at start: the first k batches it
\* produced, in the order produced, each with some event count.
Backlogs ==
    { [i \in 1..k |-> Batch(i, f[i])] :
        k \in 0..NumBatches, f \in [1..NumBatches -> EventCounts] }

SameScope(a, b) == a.tenant_id = b.tenant_id /\ a.store_id = b.store_id

ListedIds(list) == { list[i].batch_id : i \in 1..Len(list) }

\* ------------------------------------------------------------- AnchorStats
StatsDefault ==
    [total_anchored |-> 0,
     total_failed |-> 0,
     total_events_anchored |-> 0,
     last_batch_id |-> None,
     consecutive_failures |-> 0,
     l2_connection_failures |-> 0,
     sequencer_api_failures |-> 0,
     gas_price_skips |-> 0,
     last_l2_healthy |-> None,
     last_sequencer_healthy |-> None,
     total_cycles |-> 0,
     circuit_breaker_state |-> "closed",
     circuit_breaker_open_skips |-> 0]

\* As record_success below, with the count of anchored batches lost.
Stats_record_success_uncounted(s) == [s EXCEPT !.consecutive_failures = 0]

Stats_record_success(s) ==
    [s EXCEPT !.total_anchored = @ + 1,
              !.consecutive_failures = 0]

Stats_record_failure(s, error_type) ==
    [s EXCEPT !.total_failed = @ + 1,
              !.consecutive_failures = @ + 1,
              !.l2_connection_failures =
                  IF error_type = "L2Connection" THEN @ + 1 ELSE @,
              !.sequencer_api_failures =
                  IF error_type = "SequencerApi" THEN @ + 1 ELSE @]

Stats_record_gas_skip(s) == [s EXCEPT !.gas_price_skips = @ + 1]

Stats_mark_l2_healthy(s, t) == [s EXCEPT !.last_l2_healthy = Some(t)]

Stats_mark_sequencer_healthy_kept(s, t) == s

\* As the operation below, but a healthy sequencer also ends the run of
\* failures.
Stats_mark_sequencer_healthy_resets(s, t) ==
    [s EXCEPT !.last_sequencer_healthy = Some(t), !.consecutive_failures = 0]

Stats_mark_sequencer_healthy(s, t) ==
    [s EXCEPT !.last_sequencer_healthy = Some(t)]

\* uptime_percent: the whole part of the percentage, or None where the
\* unsigned subtraction total_cycles - total_failed overflows (a panic in a
\* build with overflow checks, a value near 2^64 in one without).
uptime_percent(s) ==
    IF s.total_cycles = 0 THEN Some(100)
    ELSE IF s.total_failed > s.total_cycles THEN None
    ELSE Some(((s.total_cycles - s.total_failed) * 100) \div s.total_cycles)

\* ---------------------------------------------------------- CircuitBreaker
BreakerNew ==
    [state |-> "closed",
     failure_threshold |-> circuit_breaker_failure_threshold,
     reset_timeout_secs |-> circuit_breaker_reset_timeout_secs,
     last_failure_time |-> None,
     half_open_success_count |-> 0,
     half_open_success_threshold |-> circuit_breaker_half_open_success_threshold]

ProbeDue_strict(b, t) ==
    /\ b.last_failure_time # None
    /\ t - b.last_failure_time[1] > b.reset_timeout_secs

\* The reset timeout has run out since the last failure.
ProbeDue(b, t) ==
    /\ b.last_failure_time # None
    /\ t - b.last_failure_time[1] >= b.reset_timeout_secs

\* allow_request: the breaker afterwards, and the answer.
CB_allow_request(b, t) ==
    CASE b.state = "closed" -> [breaker |-> b, allow |-> TRUE]
      [] b.state = "open" ->
            IF ProbeDue(b, t)
            THEN [breaker |-> [b EXCEPT !.state = "half-open",
                                        !.half_open_success_count = 0],
                  allow |-> TRUE]
            ELSE [breaker |-> b, allow |-> FALSE]
      [] b.state = "half-open" -> [breaker |-> b, allow |-> TRUE]

CB_record_success_counting(b) ==
    CASE b.state = "half-open" ->
            IF b.half_open_success_count + 1 >= b.half_open_success_threshold
            THEN [b EXCEPT !.state = "closed", !.half_open_success_count = 0]
            ELSE [b EXCEPT !.half_open_success_count = @ + 1]
      [] b.state = "closed" -> [b EXCEPT !.half_open_success_count = @ + 1]
      [] b.state = "open" -> [b EXCEPT !.state = "closed"]

\* As record_success, but the closing success leaves its count behind.
CB_record_success_keeps_count(b) ==
    CASE b.state = "half-open" ->
            IF b.half_open_success_count + 1 >= b.half_open_success_threshold
            THEN [b EXCEPT !.state = "closed", !.half_open_success_count = @ + 1]
            ELSE [b EXCEPT !.half_open_success_count = @ + 1]
      [] b.state = "closed" -> b
      [] b.state = "open" -> [b EXCEPT !.state = "closed"]

\* record_success: the breaker afterwards.
CB_record_success(b) ==
    CASE b.state = "half-open" ->
            IF b.half_open_success_count + 1 >= b.half_open_success_threshold
            THEN [b EXCEPT !.state = "closed", !.half_open_success_count = 0]
            ELSE [b EXCEPT !.half_open_success_count = @ + 1]
      [] b.state = "closed" -> b
      [] b.state = "open" -> [b EXCEPT !.state = "closed"]

\* As record_failure, but a closed breaker opens only above the threshold.
CB_record_failure_above(b, consecutive_failures, t) ==
    LET b1 == [b EXCEPT !.last_failure_time = Some(t)] IN
    CASE b.state = "closed" ->
            IF consecutive_failures > b.failure_threshold
            THEN [b1 EXCEPT !.state = "open"]
            ELSE b1
      [] b.state = "half-open" ->
            [b1 EXCEPT !.state = "open", !.half_open_success_count = 0]
      [] b.state = "open" -> b1

CB_record_failure_keeps_count(b, consecutive_failures, t) ==
    LET b1 == [b EXCEPT !.last_failure_time = Some(t)] IN
    CASE b.state = "closed" ->
            IF consecutive_failures >= b.failure_threshold
            THEN [b1 EXCEPT !.state = "open"]
            ELSE b1
      [] b.state = "half-open" -> [b1 EXCEPT !.state = "open"]
      [] b.state = "open" -> b1

\* record_failure: the breaker afterwards.
CB_record_failure(b, consecutive_failures, t) ==
    LET b1 == [b EXCEPT !.last_failure_time = Some(t)] IN
    CASE b.state = "closed" ->
            IF consecutive_failures >= b.failure_threshold
            THEN [b1 EXCEPT !.state = "open"]
            ELSE b1
      [] b.state = "half-open" ->
            [b1 EXCEPT !.state = "open", !.half_open_success_count = 0]
      [] b.state = "open" -> b1

\* ------------------------------------------------------------- AnchorError
\* An error: its category, its leaf and, for HttpError, the status.
Err(category, leaf) == [category |-> category, leaf |-> leaf, status |-> 0]

\* HTTP statuses tried for SequencerApiError::HttpError (a u16).
Statuses == {0, 200, 404, 499, 500, 501, 503, 65535}

AnchorErrors ==
    { Err("Config", l) :
        l \in {"MissingEnvVar", "InvalidValue", "InvalidPrivateKey",
               "InvalidAddress", "InvalidUrl"} }
    \cup { Err("L2Connection", l) :
        l \in {"ConnectionFailed", "RpcError", "ChainIdMismatch",
               "GasPriceError", "Timeout", "NotInitialized"} }
    \cup { Err("SequencerApi", l) :
        l \in {"ConnectionFailed", "ParseError", "Timeout",
               "NoPendingCommitments", "NotificationFailed"} }
    \cup { [Err("SequencerApi", "HttpError") EXCEPT !.status = n] :
        n \in Statuses }
    \cup { Err("Transaction", l) :
        l \in {"SubmissionFailed", "Reverted", "ConfirmationTimeout",
               "GasPriceTooHigh", "InsufficientFunds", "NonceError",
               "EncodingError", "InvalidBytes32"} }
    \cup { Err("Authorization", l) :
        l \in {"NotAuthorized", "CheckFailed", "InvalidPrivateKey"} }
    \cup { Err("Internal", "Internal") }

L2Error_severity(e) ==
    CASE e.leaf = "ConnectionFailed" -> "Transient"
      [] e.leaf = "RpcError" -> "Transient"
      [] e.leaf = "ChainIdMismatch" -> "Fatal"
      [] e.leaf = "GasPriceError" -> "Transient"
      [] e.leaf = "Timeout" -> "Transient"
      [] e.leaf = "NotInitialized" -> "Fatal"

SequencerApiError_severity(e) ==
    CASE e.leaf = "ConnectionFailed" -> "Transient"
      [] e.leaf = "HttpError" ->
            IF e.status >= 500 THEN "Transient" ELSE "Warning"
      [] e.leaf = "ParseError" -> "Warning"
      [] e.leaf = "Timeout" -> "Transient"
      [] e.leaf = "NoPendingCommitments" -> "Transient"
      [] e.leaf = "NotificationFailed" -> "Warning"

TransactionError_severity(e) ==
    CASE e.leaf = "SubmissionFailed" -> "Transient"
      [] e.leaf = "Reverted" -> "Warning"
      [] e.leaf = "ConfirmationTimeout" -> "Transient"
      [] e.leaf = "GasPriceTooHigh" -> "Transient"
      [] e.leaf = "InsufficientFunds" -> "Critical"
      [] e.leaf = "NonceError" -> "Transient"
      [] e.leaf = "EncodingError" -> "Critical"
      [] e.leaf = "InvalidBytes32" -> "Critical"

\* AnchorError::severity
severity(e) ==
    CASE e.category = "Config" -> "Fatal"
      [] e.category = "Authorization" -> "Fatal"
      [] e.category = "L2Connection" -> L2Error_severity(e)
      [] e.category = "SequencerApi" -> SequencerApiError_severity(e)
      [] e.category = "Transaction" -> TransactionError_severity(e)
      [] e.category = "Internal" -> "Critical"

\* AnchorError::is_retryable
is_retryable(e) == severity(e) = "Transient"

\* AnchorError::error_code
error_code(e) ==
    CASE e.category = "Config" -> "CONFIG_ERROR"
      [] e.category = "L2Connection" -> "L2_CONNECTION_ERROR"
      [] e.category = "SequencerApi" -> "SEQUENCER_API_ERROR"
      [] e.category = "Transaction" -> "TRANSACTION_ERROR"
      [] e.category = "Authorization" -> "AUTHORIZATION_ERROR"
      [] e.category = "Internal" -> "INTERNAL_ERROR"

\* The ErrorRecord record_error makes of an error: what the error was, its
\* code, its severity and whether it is retryable.
ErrorRecord(e) ==
    [error |-> e,
     error_code |-> error_code(e),
     severity |-> severity(e),
     is_retryable |-> is_retryable(e)]

\* ------------------------------------------------------------- HealthState
ErrorCategories ==
    {"Config", "L2Connection", "SequencerApi", "Transaction", "Authorization",
     "Internal"}

HealthNew ==
    [is_ready |-> FALSE,
     last_l2_check |-> None,
     last_sequencer_check |-> None,
     error_counts |-> [c \in ErrorCategories |-> 0],
     recent_errors |-> <<>>]

Health_record_error_late(h, category, leaf) ==
    LET kept == IF Len(h.recent_errors) > MAX_RECENT_ERRORS
                THEN Tail(h.recent_errors)
                ELSE h.recent_errors
    IN [h EXCEPT !.error_counts[category] = @ + 1,
                 !.recent_errors =
                     Append(kept, [category |-> category, leaf |-> leaf])]

\* record_error: count the category, then push on the ring, evicting the
\* oldest record of a full ring.
Health_record_error(h, category, leaf) ==
    LET kept == IF Len(h.recent_errors) >= MAX_RECENT_ERRORS
                THEN Tail(h.recent_errors)
                ELSE h.recent_errors
    IN [h EXCEPT !.error_counts[category] = @ + 1,
                 !.recent_errors =
                     Append(kept, [category |-> category, leaf |-> leaf])]

Health_mark_l2_healthy(h, t) == [h EXCEPT !.last_l2_check = Some(t)]

Health_mark_sequencer_healthy(h, t) ==
    [h EXCEPT !.last_sequencer_check = Some(t)]

\* -------------------------------------------------------- the collaborators
\* What a call to a collaborator can answer: anything while the environment
\* is unreliable, success only once it is healthy.
CallOutcomes == IF healthy THEN {"ok"} ELSE {"ok", "err"}

\* authorizedSequencers(signer): the signer may also be found unauthorized.
AuthOutcomes == IF healthy THEN {"ok"} ELSE {"ok", "err", "false"}

\* The gas price the provider reports under a ceiling of max_gas_price_gwei:
\* at the ceiling, or one wei above it.
GasPrices(max_gas_price_gwei) ==
    IF healthy THEN {max_gas_price_gwei * GWEI}
    ELSE {max_gas_price_gwei * GWEI, max_gas_price_gwei * GWEI + 1}

CommitOutcomes == IF healthy THEN {"ok"} ELSE {"ok", "transient", "reverted"}

\* The registry refuses a batch id it has already recorded
\* (BatchAlreadyCommitted); otherwise the transaction ends as the network
\* lets it.
RegistryOutcome(batch_id, outcome) ==
    IF batch_id \in committed THEN "reverted" ELSE outcome

\* The receipt of the transaction that recorded batch_id.
Receipt(batch_id) ==
    [transaction_hash |-> <<batch_id, Cardinality(committed) + 1>>,
     block_number |-> 100 + Cardinality(committed),
     gas_used |-> 50000]

\* The sequencer takes a batch off its pending list when it accepts the
\* notification for it.
SequencerAccept(list, batch_id) ==
    SelectSeq(list, LAMBDA c : c.batch_id # batch_id)

\* ------------------------------------------------------------ format, hex
HexDigit(n) ==
    <<"0", "1", "2", "3", "4", "5", "6", "7", "8", "9",
      "a", "b", "c", "d", "e", "f">>[n + 1]

RECURSIVE HexEncode(_)
HexEncode(bytes) ==
    IF bytes = <<>> THEN <<>>
    ELSE <<HexDigit(Head(bytes) \div 16), HexDigit(Head(bytes) % 16)>>
             \o HexEncode(Tail(bytes))

\* hex::decode, one digit: its value, or -1 for a character that is none.
HexValue(c) ==
    LET lower == { n \in 0..15 : HexDigit(n) = c }
        upper == { n \in 10..15 :
                     <<"A", "B", "C", "D", "E", "F">>[n - 9] = c }
    IN IF lower # {} THEN CHOOSE n \in lower : TRUE
       ELSE IF upper # {} THEN CHOOSE n \in upper : TRUE
       ELSE -1

\* hex::decode: the bytes of an even number of hex digits, None otherwise.
hex_decode(text) ==
    IF Len(text) % 2 = 1 \/ \E i \in 1..Len(text) : HexValue(text[i]) < 0
    THEN None
    ELSE Some([i \in 1..(Len(text) \div 2) |->
                  16 * HexValue(text[2 * i - 1]) + HexValue(text[2 * i])])

\* str::strip_prefix("0x").unwrap_or(hex_str)
strip_prefix_0x(text) ==
    IF Len(text) >= 2 /\ text[1] = "0" /\ text[2] = "x"
    THEN SubSeq(text, 3, Len(text))
    ELSE text

\* FixedBytes::ZERO
ZERO == [i \in 1..32 |-> 0]

parse_bytes32_any_length(text) ==
    LET hex_str == strip_prefix_0x(text) IN
    IF hex_str = <<>> \/ \A i \in 1..Len(hex_str) : hex_str[i] = "0"
    THEN Some(ZERO)
    ELSE hex_decode(hex_str)

\* parse_bytes32: Some(the 32 bytes), or None for an error.
parse_bytes32(text) ==
    LET hex_str == strip_prefix_0x(text) IN
    IF hex_str = <<>> \/ \A i \in 1..Len(hex_str) : hex_str[i] = "0"
    THEN Some(ZERO)
    ELSE LET bytes == hex_decode(hex_str) IN
         IF bytes = None THEN None
         ELSE IF Len(bytes[1]) # 32 THEN None
         ELSE bytes

\* commit_batch: the three roots of a commitment parsed, None if any is
\* refused.
ParseRoots(c) ==
    LET events_root == parse_bytes32(c.events_root)
        prev_state_root == parse_bytes32(c.prev_state_root)
        new_state_root == parse_bytes32(c.new_state_root)
    IN IF events_root = None \/ prev_state_root = None
          \/ new_state_root = None
       THEN None
       ELSE Some([events_root |-> events_root[1],
                  prev_state_root |-> prev_state_root[1],
                  new_state_root |-> new_state_root[1]])

\* format!("0x{}", hex::encode(tx_hash))
TxHashHex(tx_hash) == <<"0", "x">> \o HexEncode(tx_hash)

\* As the notification below, but the hash goes out as bare hex digits.
AnchorNotification_bare_hex(receipt, chain_id) ==
    [chain_tx_hash |-> HexEncode(receipt.transaction_hash),
     chain_id |-> chain_id,
     block_number |-> Some(receipt.block_number),
     gas_used |-> Some(receipt.gas_used)]

\* As the notification below, without the receipt's block and gas.
AnchorNotification_no_receipt(receipt, chain_id) ==
    [chain_tx_hash |-> TxHashHex(receipt.transaction_hash),
     chain_id |-> chain_id,
     block_number |-> None,
     gas_used |-> None]

\* The notification anchor_commitment builds from a receipt.
AnchorNotification(receipt, chain_id) ==
    [chain_tx_hash |-> TxHashHex(receipt.transaction_hash),
     chain_id |-> chain_id,
     block_number |-> Some(receipt.block_number),
     gas_used |-> Some(receipt.gas_used)]

\* --------------------------------------------------------- loop decisions
\* As the cap below, keeping one batch too many.
Truncate_one_more(list, cap) ==
    IF cap > 0 /\ Len(list) > cap THEN SubSeq(list, 1, cap + 1) ELSE list

\* anchor_pending: the per-cycle cap keeps a prefix of the fetched list.
Truncate(list, cap) ==
    IF cap > 0 /\ Len(list) > cap THEN SubSeq(list, 1, cap) ELSE list

\* As the threshold check below, with the comparison turned round.
BelowThreshold_reversed(c) == c.event_count > min_events_for_anchor

\* anchor_pending: the minimum-event threshold.
BelowThreshold(c) == c.event_count < min_events_for_anchor

\* As the gate below, but a price at the ceiling is refused too.
GasTooHigh_at_ceiling(gas_price, max_gas_price_gwei) ==
    gas_price >= max_gas_price_gwei * GWEI

\* anchor_pending: the gas ceiling, in wei.
GasTooHigh(gas_price, max_gas_price_gwei) ==
    gas_price > max_gas_price_gwei * GWEI

\* As the retry test below, off by one: one attempt too many.
RetryAgain_inclusive(attempt) == attempt <= max_retries

\* anchor_with_retry: another attempt follows a failed one.
RetryAgain(attempt) == attempt < max_retries

\* As the count below, but through record_failure, as for a failed anchor.
NotifyFailureCounted_as_failure(s) == Stats_record_failure(s, "SequencerApi")

\* anchor_commitment: a failed notification is counted as a sequencer API
\* failure and as nothing else.
NotifyFailureCounted(s) == [s EXCEPT !.sequencer_api_failures = @ + 1]

BackoffSecs_flat(attempt) == retry_delay_secs

\* anchor_with_retry: the back-off after a failed attempt.
BackoffSecs(attempt) == retry_delay_secs * attempt

\* ------------------------------------------------------------------- locks
\* The RwLocks of the process.  The statistics are one lock, shared by the
\* service, its HealthState and the server's HealthState; the breaker's lock
\* is the service's; each HealthState has five of its own.
StatsLock == <<"service", "stats">>

BreakerLock == <<"service", "circuit_breaker">>

HealthLock(state, field) == <<state, field>>

\* A block that takes the write lock of l and drops the guard at its end,
\* with no await in between.
WriteBlock(l) == <<[op |-> "write", on |-> l], [op |-> "drop", on |-> l]>>

\* HealthState::record_error on the service's HealthState: two blocks.
record_error_locks ==
    WriteBlock(HealthLock("health", "error_counts"))
        \o WriteBlock(HealthLock("health", "recent_errors"))

update_circuit_breaker_state_locks == WriteBlock(StatsLock)

\* As record_success below, but the breaker's guard lives to the end of the
\* function.
record_success_locks_nested ==
    <<[op |-> "write", on |-> BreakerLock], [op |-> "write", on |-> StatsLock],
      [op |-> "drop", on |-> StatsLock], [op |-> "drop", on |-> BreakerLock]>>

\* AnchorService::record_success: the breaker's block, then the statistics.
record_success_locks == WriteBlock(BreakerLock) \o WriteBlock(StatsLock)

\* AnchorService::record_failure: statistics, breaker, statistics.
record_failure_locks ==
    WriteBlock(StatsLock) \o WriteBlock(BreakerLock) \o WriteBlock(StatsLock)

set_ready_locks == WriteBlock(HealthLock("health", "is_ready"))

mark_l2_healthy_locks == WriteBlock(HealthLock("health", "last_l2_check"))

mark_sequencer_healthy_locks ==
    WriteBlock(HealthLock("health", "last_sequencer_check"))

\* One stretch of the loop: from the await it resumes from, through the
\* lock operations it makes, to the await it suspends on next.
Seg(from, ops, to) == [from |-> from, ops |-> ops, to |-> to]

\* run, the loop head: total_cycles, allow_request, then the denied branch
\* up to its sleep or update_circuit_breaker_state up to the first call of
\* anchor_pending.
LoopHead == WriteBlock(StatsLock) \o WriteBlock(BreakerLock)

Cycle ==
    {[ops |-> LoopHead \o WriteBlock(StatsLock), to |-> "sleep"],
     [ops |-> LoopHead \o update_circuit_breaker_state_locks,
      to |-> IF config.max_gas_price_gwei > 0 THEN "gas_price" ELSE "fetch"]}

Entering(from, ops) == { Seg(from, ops \o c.ops, c.to) : c \in Cycle }

\* run, the Ok arm: both L2-healthy marks, then the interval sleep.
CycleEnd == mark_l2_healthy_locks \o WriteBlock(StatsLock)

\* anchor_pending after a batch is done: the next batch, or the return.
AfterBatch(from, ops) ==
    {Seg(from, ops, "commit"), Seg(from, ops \o CycleEnd, "sleep")}

\* Every stretch of run, anchor_pending, anchor_with_retry and
\* anchor_commitment between two awaits of a call or a sleep.
Segments ==
    {Seg("run", WriteBlock(StatsLock), "create_provider"),
     Seg("create_provider", <<>>, "get_chain_id"),
     Seg("create_provider", record_error_locks, "returned"),
     Seg("get_chain_id", <<>>, "is_authorized"),
     Seg("get_chain_id", record_error_locks \o record_failure_locks,
         "returned"),
     Seg("is_authorized", record_error_locks, "returned")}
    \cup Entering("is_authorized",
                  set_ready_locks \o mark_l2_healthy_locks
                      \o WriteBlock(StatsLock))
    \cup Entering("sleep", <<>>)
    \cup {Seg("gas_price",
              record_error_locks \o record_failure_locks \o CycleEnd, "sleep"),
          Seg("gas_price", WriteBlock(StatsLock) \o CycleEnd, "sleep"),
          Seg("gas_price", <<>>, "fetch"),
          Seg("fetch",
              record_failure_locks \o record_error_locks \o CycleEnd, "sleep"),
          Seg("fetch",
              mark_sequencer_healthy_locks \o WriteBlock(StatsLock)
                  \o CycleEnd, "sleep"),
          Seg("fetch",
              mark_sequencer_healthy_locks \o WriteBlock(StatsLock), "commit"),
          Seg("commit", <<>>, "receipt"),
          Seg("commit", <<>>, "backoff"),
          Seg("receipt", <<>>, "notify"),
          Seg("receipt", <<>>, "backoff"),
          Seg("backoff", <<>>, "commit")}
    \cup AfterBatch("commit", record_failure_locks \o record_error_locks)
    \cup AfterBatch("receipt", record_failure_locks \o record_error_locks)
    \cup AfterBatch("notify", record_success_locks)
    \cup AfterBatch("notify",
                    WriteBlock(StatsLock) \o record_error_locks
                        \o record_success_locks)

\* The awaits of a call or a sleep the loop suspends on.
SuspensionPoints ==
    {"create_provider", "get_chain_id", "is_authorized", "gas_price", "fetch",
     "commit", "receipt", "backoff", "notify", "sleep"}

\* A read guard kept to the handler's end, and one dropped with the
\* statement that took it.
Read(l) == [op |-> "read", on |-> l]

Peek(l) == [op |-> "peek", on |-> l]

Routes == {"/health", "/ready", "/metrics", "/stats", "/errors"}

\* The read locks each handler takes, in order, on the server's state.
handler_locks(route) ==
    CASE route = "/health" -> <<>>
      [] route = "/ready" ->
            <<Peek(HealthLock("served", "is_ready")),
              Read(HealthLock("served", "last_l2_check")),
              Read(HealthLock("served", "last_sequencer_check"))>>
      [] route = "/metrics" ->
            <<Read(StatsLock),
              Read(HealthLock("served", "error_counts")),
              Read(HealthLock("served", "last_l2_check")),
              Read(HealthLock("served", "last_sequencer_check")),
              Peek(HealthLock("served", "is_ready"))>>
      [] route = "/stats" -> <<Read(StatsLock)>>
      [] route = "/errors" ->
            <<Peek(HealthLock("served", "error_counts")),
              Peek(HealthLock("served", "recent_errors"))>>

NoRequest == [route |-> "", ops |-> <<>>, held |-> {}]

\* Nothing held, nobody waiting: the loop at the entry of run, no request.
NoLocks ==
    [loop |-> [at |-> "run", ops |-> <<>>, to |-> "run", held |-> {},
               waiting |-> FALSE],
     requests |-> [r \in 1..MaxRequests |-> NoRequest]]

\* --------------------------------------------------------------- the state
LocalsNew ==
    [chain_id |-> None,
     is_authorized |-> None,
     gas_price |-> None,
     allow_request |-> FALSE,
     breaker_state |-> "closed",
     commitments |-> <<>>,
     idx |-> 0,
     attempt |-> 0,
     last_error |-> None,
     roots |-> None,
     pending_tx |-> None,
     receipt |-> None,
     results |-> <<>>,
     error_type |-> "",
     consecutive_failures |-> 0,
     ret |-> ""]

\* History of the current cycle: the outbound calls made in it, the batches
\* that exhausted their retries in it, the statistics as the cycle found
\* them, and the state as the current batch found it.
NoCalls ==
    [commit |-> [i \in BatchIds |-> 0],
     commit_ok |-> [i \in BatchIds |-> 0],
     sent |-> <<>>,
     fetch |-> 0,
     gas |-> 0,
     exhausted |-> 0,
     cycle_mark |-> StatsDefault,
     batch_mark |-> [stats |-> StatsDefault, breaker |-> BreakerNew,
                     errors |-> 0, now |-> 0]]

\* History of the process: tripped, the breaker became open and no probe has
\* been due since; streak, the batches that exhausted their retries in a
\* row with no successful anchor in between; clean, this is the first
\* process and so far every call it made succeeded, with the gas price
\* within the ceiling; probes, the cycles in a row whose fetch succeeded
\* with the breaker half-open and no failure recorded since (counted up to
\* the breaker's threshold).
NoHistory ==
    [tripped |-> FALSE, streak |-> 0, clean |-> TRUE, probes |-> 0,
     recorded |-> 0]

Min(a, b) == IF a < b THEN a ELSE b

\* The history after a call answered r.
Answered(h, r) == IF r = "ok" THEN h ELSE [h EXCEPT !.clean = FALSE]

\* Settings of expected_l2_chain_id besides 0: the chain's id, and another.
ExpectedChainIds == {L2ChainId, L2ChainId + 1}

\* The settings tried: every cap with every gas ceiling, expecting no chain
\* id; and an expected chain id with neither cap nor ceiling.
Configs ==
    [max_commitments_per_cycle : 0..MaxCommitCap,
     max_gas_price_gwei : GasCeilings,
     expected_l2_chain_id : {0}]
    \cup
    [max_commitments_per_cycle : {0},
     max_gas_price_gwei : {0},
     expected_l2_chain_id : ExpectedChainIds]

Init ==
    /\ config \in Configs
    /\ pc = "create_provider"
    /\ stats = StatsDefault
    /\ breaker = BreakerNew
    /\ health = HealthNew
    /\ loc = LocalsNew
    /\ now = 0
    /\ pending \in Backlogs
    /\ notifications = <<>>
    /\ committed = {}
    /\ healthy = FALSE
    /\ calls = NoCalls
    /\ hist = NoHistory
    /\ served = HealthNew
    /\ http = None
    /\ locks = NoLocks

Env == <<pending, notifications, committed, healthy>>

Web == <<served, http, locks>>

\* record_failure(error_type), then go on at ret.
CallRecordFailure(l, error_type, ret) ==
    [l EXCEPT !.error_type = error_type, !.ret = ret]

\* ----------------------------------------------------------------- start-up
\* run: create_provider.
CreateProvider ==
    /\ pc = "create_provider"
    /\ \E r \in CallOutcomes :
         /\ IF r = "ok"
            THEN /\ pc' = "get_chain_id"
                 /\ health' = health
            ELSE /\ pc' = "failed"
                 /\ health' = Health_record_error(health, "Config",
                                                  "InvalidValue")
         /\ hist' = Answered(hist, r)
    /\ UNCHANGED <<config, stats, breaker, loc, now, Env, Web, calls>>

\* As the check below, but an expected chain id is never enforced.
ChainIdMismatch_unchecked(expected_l2_chain_id, chain_id) == FALSE

\* run: the expected-chain-id check; 0 expects nothing.
ChainIdMismatch(expected_l2_chain_id, chain_id) ==
    expected_l2_chain_id > 0 /\ chain_id # expected_l2_chain_id

\* run: the chain id read and the expected-chain-id check.
GetChainId ==
    /\ pc = "get_chain_id"
    /\ \E r \in CallOutcomes :
         IF r = "err"
         THEN /\ health' = Health_record_error(health, "L2Connection", "RpcError")
              /\ loc' = CallRecordFailure(loc, "L2Connection", "failed")
              /\ pc' = "rf_stats"
              /\ hist' = Answered(hist, r)
         ELSE IF ChainIdMismatch(config.expected_l2_chain_id, L2ChainId)
         THEN /\ health' = Health_record_error(health, "L2Connection",
                                               "ChainIdMismatch")
              /\ loc' = CallRecordFailure(
                            [loc EXCEPT !.chain_id = Some(L2ChainId)],
                            "L2Connection", "failed")
              /\ pc' = "rf_stats"
              /\ hist' = Answered(hist, "mismatch")
         ELSE /\ health' = health
              /\ loc' = [loc EXCEPT !.chain_id = Some(L2ChainId)]
              /\ pc' = "is_authorized"
              /\ hist' = hist
    /\ UNCHANGED <<config, stats, breaker, now, Env, Web, calls>>

\* run: the authorization check, and on success the ready flag and the
\* first L2-healthy marks.
CheckAuthorized ==
    /\ pc = "is_authorized"
    /\ \E r \in AuthOutcomes :
         /\ IF r = "ok"
            THEN /\ health' = Health_mark_l2_healthy(
                                  [health EXCEPT !.is_ready = TRUE], now)
                 /\ stats' = Stats_mark_l2_healthy(stats, now)
                 /\ loc' = [loc EXCEPT !.is_authorized = Some(TRUE)]
                 /\ pc' = "cycle_start"
            ELSE /\ health' = Health_record_error(health, "Authorization",
                                  IF r = "false" THEN "NotAuthorized"
                                                 ELSE "CheckFailed")
                 /\ stats' = stats
                 /\ loc' = [loc EXCEPT !.is_authorized =
                                IF r = "false" THEN Some(FALSE) ELSE None]
                 /\ pc' = "failed"
         /\ hist' = Answered(hist, r)
    /\ UNCHANGED <<config, breaker, now, Env, Web, calls>>

\* ---------------------------------------------------------- record_failure
\* First critical section: the statistics.
RecordFailureStats ==
    /\ pc = "rf_stats"
    /\ stats' = Stats_record_failure(stats, loc.error_type)
    /\ loc' = [loc EXCEPT !.consecutive_failures =
                              stats'.consecutive_failures]
    /\ pc' = "rf_breaker"
    /\ UNCHANGED <<config, breaker, health, now, Env, Web, calls, hist>>

\* Second critical section: the breaker.
RecordFailureBreaker ==
    /\ pc = "rf_breaker"
    /\ breaker' = CB_record_failure(breaker, loc.consecutive_failures, now)
    /\ loc' = [loc EXCEPT !.breaker_state = breaker'.state,
                          !.consecutive_failures = 0]
    /\ hist' = [hist EXCEPT !.tripped = (@ \/ breaker'.state = "open"),
                            !.probes = 0]
    /\ pc' = "rf_mirror"
    /\ UNCHANGED <<config, stats, health, now, Env, Web, calls>>

\* Third critical section: the breaker state mirrored into the statistics.
RecordFailureMirror ==
    /\ pc = "rf_mirror"
    /\ stats' = [stats EXCEPT !.circuit_breaker_state = loc.breaker_state]
    /\ pc' = loc.ret
    /\ loc' = [loc EXCEPT !.error_type = "", !.ret = ""]
    /\ UNCHANGED <<config, breaker, health, now, Env, Web, calls, hist>>

\* ------------------------------------------------------------ the main loop
\* The cycles one process runs: idle cycles are cheap, so more of them.
CycleCap == IF pending = <<>> THEN MaxIdleCycles ELSE MaxCycles

\* loop head: total_cycles += 1.  One process runs at most CycleCap cycles.
CycleStart ==
    /\ pc = "cycle_start"
    /\ stats.total_cycles < CycleCap
    /\ stats' = [stats EXCEPT !.total_cycles = @ + 1]
    /\ calls' = [NoCalls EXCEPT !.cycle_mark = stats]
    /\ pc' = "allow"
    /\ UNCHANGED <<config, breaker, health, loc, now, Env, Web, hist>>

\* The breaker's critical section: allow_request and the state read with it.
AllowRequest ==
    /\ pc = "allow"
    /\ LET r == CB_allow_request(breaker, now) IN
         /\ breaker' = r.breaker
         /\ loc' = [loc EXCEPT !.allow_request = r.allow,
                               !.breaker_state = r.breaker.state]
         /\ pc' = IF r.allow THEN "allowed" ELSE "denied"
    /\ hist' = [hist EXCEPT !.tripped = (@ /\ ~ProbeDue(breaker, now))]
    /\ UNCHANGED <<config, stats, health, now, Env, Web, calls>>

\* As the denied branch below, without its continue: the cycle goes on into
\* anchor_pending.
Denied_falls_through ==
    /\ pc = "denied"
    /\ stats' = [stats EXCEPT !.circuit_breaker_state = loc.breaker_state,
                              !.circuit_breaker_open_skips = @ + 1]
    /\ pc' = "allowed"
    /\ UNCHANGED <<config, breaker, health, loc, now, Env, Web, calls, hist>>

\* Request denied: count the skipped cycle, then sleep.
Denied ==
    /\ pc = "denied"
    /\ stats' = [stats EXCEPT !.circuit_breaker_state = loc.breaker_state,
                              !.circuit_breaker_open_skips = @ + 1]
    /\ pc' = "sleep"
    /\ UNCHANGED <<config, breaker, health, loc, now, Env, Web, calls, hist>>

\* Request allowed: update_circuit_breaker_state, then anchor_pending begins.
Allowed ==
    /\ pc = "allowed"
    /\ stats' = [stats EXCEPT !.circuit_breaker_state = loc.breaker_state]
    /\ pc' = IF config.max_gas_price_gwei > 0 THEN "gas_price" ELSE "fetch"
    /\ UNCHANGED <<config, breaker, health, loc, now, Env, Web, calls, hist>>

\* anchor_pending: the gas gate.
GasPrice ==
    /\ pc = "gas_price"
    /\ calls' = [calls EXCEPT !.gas = @ + 1]
    /\ \E r \in CallOutcomes,
          gas_price \in GasPrices(config.max_gas_price_gwei) :
         IF r = "err"
         THEN /\ health' = Health_record_error(health, "L2Connection",
                                               "GasPriceError")
              /\ loc' = CallRecordFailure(loc, "L2Connection", "cycle_ok")
              /\ stats' = stats
              /\ pc' = "rf_stats"
              /\ hist' = Answered(hist, r)
         ELSE IF GasTooHigh(gas_price, config.max_gas_price_gwei)
         THEN /\ stats' = Stats_record_gas_skip(stats)
              /\ loc' = [loc EXCEPT !.gas_price = Some(gas_price)]
              /\ pc' = "cycle_ok"
              /\ hist' = [Answered(hist, "too high") EXCEPT !.probes = 0]
              /\ health' = health
         ELSE /\ loc' = [loc EXCEPT !.gas_price = Some(gas_price)]
              /\ pc' = "fetch"
              /\ UNCHANGED <<health, stats, hist>>
    /\ UNCHANGED <<config, breaker, now, Env, Web>>

\* anchor_pending: the fetch of the pending list, the empty-list return and
\* the per-cycle cap.
Fetch ==
    /\ pc = "fetch"
    /\ calls' = [calls EXCEPT !.fetch = @ + 1]
    /\ \E r \in CallOutcomes :
         IF r = "err"
         THEN /\ loc' = CallRecordFailure(loc, "SequencerApi", "fetch_failed")
              /\ pc' = "rf_stats"
              /\ hist' = Answered(hist, r)
              /\ UNCHANGED <<health, stats>>
         ELSE /\ health' = Health_mark_sequencer_healthy(health, now)
              /\ stats' = Stats_mark_sequencer_healthy(stats, now)
              /\ hist' = [hist EXCEPT !.probes =
                              IF breaker.state = "half-open"
                              THEN Min(@ + 1, breaker.half_open_success_threshold)
                              ELSE @]
              /\ IF pending = <<>>
                 THEN /\ pc' = "cycle_ok"
                      /\ loc' = loc
                 ELSE /\ pc' = "next_batch"
                      /\ loc' = [loc EXCEPT
                             !.commitments =
                                 Truncate(pending,
                                          config.max_commitments_per_cycle),
                             !.idx = 1]
    /\ UNCHANGED <<config, breaker, now, Env, Web>>

\* As the step below, but the error is returned from run.
FetchFailed_returns ==
    /\ pc = "fetch_failed"
    /\ health' = Health_record_error(health, "SequencerApi", "ConnectionFailed")
    /\ pc' = "failed"
    /\ UNCHANGED <<config, stats, breaker, loc, now, Env, Web, calls, hist>>

\* anchor_pending: the error of a failed fetch goes to the ring after
\* record_failure; the cycle returns an empty result.
FetchFailed ==
    /\ pc = "fetch_failed"
    /\ health' = Health_record_error(health, "SequencerApi", "ConnectionFailed")
    /\ pc' = "cycle_ok"
    /\ UNCHANGED <<config, stats, breaker, loc, now, Env, Web, calls, hist>>

\* anchor_pending: the head of the batch loop, with the threshold check.
NextBatch ==
    /\ pc = "next_batch"
    /\ IF loc.idx > Len(loc.commitments)
       THEN /\ pc' = "cycle_ok"
            /\ loc' = [loc EXCEPT !.commitments = <<>>, !.idx = 0,
                                  !.results = <<>>]
       ELSE IF BelowThreshold(loc.commitments[loc.idx])
       THEN /\ pc' = "next_batch"
            /\ loc' = [loc EXCEPT !.idx = @ + 1]
       ELSE IF max_retries >= 1
       THEN /\ pc' = "commit"
            /\ loc' = [loc EXCEPT !.attempt = 1, !.last_error = None]
       ELSE /\ pc' = "rf_stats"
            /\ loc' = CallRecordFailure(loc, "Transaction", "retries_exhausted")
    /\ calls' = IF /\ loc.idx <= Len(loc.commitments)
                    /\ ~BelowThreshold(loc.commitments[loc.idx])
                 THEN [calls EXCEPT !.batch_mark =
                          [stats |-> stats, breaker |-> breaker,
                           errors |-> Len(health.recent_errors),
                           now |-> now]]
                 ELSE calls
    /\ UNCHANGED <<config, stats, breaker, health, now, Env, Web, hist>>

\* anchor_with_retry: where a failed attempt leaves the loop: at the back-off
\* before the next attempt, or at record_failure after the last one.
AttemptFailed(l, e) ==
    IF RetryAgain(l.attempt)
    THEN [loc |-> [l EXCEPT !.last_error = Some(e), !.pending_tx = None,
                            !.roots = None],
          pc |-> "backoff"]
    ELSE [loc |-> CallRecordFailure(
                      [l EXCEPT !.last_error = Some(e), !.pending_tx = None,
                                !.roots = None],
                      "Transaction", "retries_exhausted"),
          pc |-> "rf_stats"]

\* commit_batch, one attempt, up to the send: a root is refused and nothing
\* is sent, or the transaction is refused, or it is dispatched and the
\* registry records the batch.
CommitBatch ==
    /\ pc = "commit"
    /\ LET c == loc.commitments[loc.idx] IN
       \E o \in CommitOutcomes :
         LET roots == ParseRoots(c)
             r == IF roots = None THEN "invalid_root"
                  ELSE RegistryOutcome(c.batch_id, o)
             f == AttemptFailed(loc, r)
         IN
         /\ calls' = [calls EXCEPT
                 !.commit[c.batch_id] = @ + 1,
                 !.exhausted = IF r # "ok" /\ ~RetryAgain(loc.attempt)
                               THEN @ + 1 ELSE @]
         /\ hist' = [Answered(hist, r) EXCEPT !.streak =
                 IF r = "ok" \/ RetryAgain(loc.attempt) THEN @ ELSE @ + 1]
         /\ IF r = "ok"
            THEN /\ committed' = committed \cup {c.batch_id}
                 /\ loc' = [loc EXCEPT !.roots = roots,
                        !.pending_tx = Some(Receipt(c.batch_id))]
                 /\ pc' = "receipt"
            ELSE /\ committed' = committed
                 /\ loc' = f.loc
                 /\ pc' = f.pc
    /\ UNCHANGED <<config, stats, breaker, health, now, pending, notifications,
                   healthy, Web>>

\* commit_batch, the wait for the receipt of the dispatched transaction:
\* it arrives, or the wait fails.
GetReceipt ==
    /\ pc = "receipt"
    /\ LET c == loc.commitments[loc.idx] IN
       \E r \in CallOutcomes :
         LET f == AttemptFailed(loc, "transient") IN
         /\ calls' = [calls EXCEPT
                 !.commit_ok[c.batch_id] = IF r = "ok" THEN @ + 1 ELSE @,
                 !.exhausted = IF r # "ok" /\ ~RetryAgain(loc.attempt)
                               THEN @ + 1 ELSE @]
         /\ hist' = [Answered(hist, r) EXCEPT !.streak =
                 IF r = "ok" THEN 0
                 ELSE IF RetryAgain(loc.attempt) THEN @ ELSE @ + 1]
         /\ IF r = "ok"
            THEN /\ loc' = [loc EXCEPT !.receipt = loc.pending_tx,
                                       !.pending_tx = None, !.roots = None]
                 /\ pc' = "notify"
            ELSE /\ loc' = f.loc
                 /\ pc' = f.pc
    /\ UNCHANGED <<config, stats, breaker, health, now, Env, Web>>

\* As the back-off below, but the batch loop moves on to the next batch
\* instead of trying this one again.
Backoff_moves_on ==
    /\ pc = "backoff"
    /\ now' = now + BackoffSecs(loc.attempt)
    /\ loc' = [loc EXCEPT !.idx = @ + 1, !.attempt = 0]
    /\ pc' = "next_batch"
    /\ UNCHANGED <<config, stats, breaker, health, Env, Web, calls, hist>>

\* anchor_with_retry: the back-off sleep before the next attempt.
Backoff ==
    /\ pc = "backoff"
    /\ now' = now + BackoffSecs(loc.attempt)
    /\ loc' = [loc EXCEPT !.attempt = @ + 1]
    /\ pc' = "commit"
    /\ UNCHANGED <<config, stats, breaker, health, Env, Web, calls, hist>>

\* anchor_commitment: notify_anchored, once; a failure is counted and
\* recorded, and the attempt still ends in success.
NotifyAnchored ==
    /\ pc = "notify"
    /\ LET c == loc.commitments[loc.idx]
           n == AnchorNotification(loc.receipt[1], loc.chain_id[1])
       IN \E r \in CallOutcomes :
            /\ calls' = [calls EXCEPT !.sent =
                   Append(@, [batch_id |-> c.batch_id, notification |-> n,
                              delivered |-> (r = "ok")])]
            /\ IF r = "ok"
               THEN /\ notifications' =
                        Append(notifications,
                               [batch_id |-> c.batch_id, notification |-> n])
                    /\ pending' = SequencerAccept(pending, c.batch_id)
                    /\ UNCHANGED <<stats, health>>
               ELSE /\ stats' = NotifyFailureCounted(stats)
                    /\ health' = Health_record_error(health, "SequencerApi",
                                                     "NotificationFailed")
                    /\ UNCHANGED <<notifications, pending>>
            /\ hist' = Answered(hist, r)
    /\ pc' = "rs_breaker"
    /\ UNCHANGED <<config, breaker, loc, now, committed, healthy, Web>>

\* record_success, first critical section: the breaker.
RecordSuccessBreaker ==
    /\ pc = "rs_breaker"
    /\ breaker' = CB_record_success(breaker)
    /\ loc' = [loc EXCEPT !.breaker_state = breaker'.state]
    /\ pc' = "rs_stats"
    /\ UNCHANGED <<config, stats, health, now, Env, Web, calls, hist>>

\* As the step below, with the batch's events left out of the statistics.
RecordSuccessStats_without_events ==
    /\ pc = "rs_stats"
    /\ LET c == loc.commitments[loc.idx] IN
         /\ stats' = [Stats_record_success(stats) EXCEPT
                 !.last_batch_id = Some(c.batch_id),
                 !.circuit_breaker_state = loc.breaker_state]
         /\ loc' = [loc EXCEPT
                 !.results = Append(@, [batch_id |-> c.batch_id,
                                        success |-> TRUE]),
                 !.idx = @ + 1, !.attempt = 0, !.last_error = None,
                 !.receipt = None]
    /\ pc' = "next_batch"
    /\ UNCHANGED <<config, breaker, health, now, Env, Web, calls, hist>>

\* record_success, second critical section: the statistics; the attempt's
\* result is returned and the batch loop goes on.
RecordSuccessStats ==
    /\ pc = "rs_stats"
    /\ LET c == loc.commitments[loc.idx] IN
         /\ stats' = [Stats_record_success(stats) EXCEPT
                 !.total_events_anchored = @ + c.event_count,
                 !.last_batch_id = Some(c.batch_id),
                 !.circuit_breaker_state = loc.breaker_state]
         /\ loc' = [loc EXCEPT
                 !.results = Append(@, [batch_id |-> c.batch_id,
                                        success |-> TRUE]),
                 !.idx = @ + 1, !.attempt = 0, !.last_error = None,
                 !.receipt = None]
    /\ pc' = "next_batch"
    /\ UNCHANGED <<config, breaker, health, now, Env, Web, calls, hist>>

\* anchor_with_retry: all attempts failed; after record_failure the error
\* goes to the ring and the failed result is returned.
RetriesExhausted ==
    /\ pc = "retries_exhausted"
    /\ LET c == loc.commitments[loc.idx] IN
         /\ health' = Health_record_error(health, "Transaction",
                                          "SubmissionFailed")
         /\ loc' = [loc EXCEPT
                 !.results = Append(@, [batch_id |-> c.batch_id,
                                        success |-> FALSE]),
                 !.idx = @ + 1, !.attempt = 0, !.last_error = None]
    /\ pc' = "next_batch"
    /\ UNCHANGED <<config, stats, breaker, now, Env, Web, calls, hist>>

\* run: anchor_pending returned Ok; mark L2 healthy.
CycleOk ==
    /\ pc = "cycle_ok"
    /\ health' = Health_mark_l2_healthy(health, now)
    /\ stats' = Stats_mark_l2_healthy(stats, now)
    /\ loc' = [loc EXCEPT !.gas_price = None]
    /\ pc' = "sleep"
    /\ UNCHANGED <<config, breaker, now, Env, Web, calls, hist>>

\* run: the interval sleep.
Sleep ==
    /\ pc = "sleep"
    /\ now' = now + anchor_interval_secs
    /\ pc' = "cycle_start"
    /\ UNCHANGED <<config, stats, breaker, health, loc, Env, Web, calls, hist>>

\* ------------------------------------------------------------- the process
\* main: the interrupt ends the process once it has run its cycles; a failed
\* start-up ends it by itself.
Interrupt ==
    /\ pc = "cycle_start"
    /\ stats.total_cycles >= CycleCap
    /\ pc' = "stopped"
    /\ UNCHANGED <<config, stats, breaker, health, loc, now, Env, Web, calls,
                   hist>>

\* main: the interrupt arrives while run is suspended anywhere: select!
\* returns and the future of run is dropped where it stands.
Cancel ==
    /\ pc \notin {"stopped", "failed"}
    /\ pc' = "stopped"
    /\ UNCHANGED <<config, stats, breaker, health, loc, now, Env, Web, calls,
                   hist>>

\* main: a new process; nothing of the old one's state is kept, the
\* sequencer and the chain are as they were.
Restart ==
    /\ pc \in {"stopped", "failed"}
    /\ pc' = "create_provider"
    /\ stats' = StatsDefault
    /\ breaker' = BreakerNew
    /\ health' = HealthNew
    /\ loc' = LocalsNew
    /\ now' = 0
    /\ calls' = NoCalls
    /\ hist' = [NoHistory EXCEPT !.clean = FALSE]
    /\ served' = HealthNew
    /\ http' = None
    /\ locks' = NoLocks
    /\ UNCHANGED <<config, Env>>

\* The environment stops failing.
Heal ==
    /\ ~healthy
    /\ healthy' = TRUE
    /\ UNCHANGED <<config, pc, stats, breaker, health, loc, now, pending,
                   notifications, committed, calls, hist, Web>>

\* ------------------------------------------------------- the HTTP surface
Fresh_inclusive(mark, t) == mark # None /\ t - mark[1] <= FreshSecs

\* A mark is fresh for FreshSecs whole seconds.
Fresh(mark, t) == mark # None /\ t - mark[1] < FreshSecs

\* ready_handler: the response to GET /ready from the state h at time t.
ready_handler(h, t) ==
    LET l2_healthy == Fresh(h.last_l2_check, t)
        seq_healthy == Fresh(h.last_sequencer_check, t)
        ready == h.is_ready /\ l2_healthy /\ seq_healthy
    IN [status |-> IF ready THEN 200 ELSE 503,
        ready |-> ready,
        l2_connected |-> l2_healthy,
        sequencer_connected |-> seq_healthy]

\* get_recent_errors(limit): the last limit records of the ring.
get_recent_errors(h, limit) ==
    LET n == Len(h.recent_errors) IN
    SubSeq(h.recent_errors, IF n > limit THEN n - limit + 1 ELSE 1, n)

\* errors_handler: the response to GET /errors.
errors_handler(h) ==
    [status |-> 200,
     counts |-> h.error_counts,
     recent_errors |-> get_recent_errors(h, ErrorsLimit)]

\* The server lives as long as run has not returned.
Serving == pc \notin {"failed", "stopped"}

\* GET /ready is served.
ReadyHandler ==
    /\ Serving
    /\ http' = Some(ready_handler(served, now))
    /\ UNCHANGED <<config, pc, stats, breaker, health, loc, now, Env, calls,
                   hist, served, locks>>

\* GET /errors is served.
ErrorsHandler ==
    /\ Serving
    /\ http' = Some(errors_handler(served))
    /\ UNCHANGED <<config, pc, stats, breaker, health, loc, now, Env, calls,
                   hist, served, locks>>

Service ==
    \/ CreateProvider \/ GetChainId \/ CheckAuthorized
    \/ RecordFailureStats \/ RecordFailureBreaker \/ RecordFailureMirror
    \/ CycleStart \/ AllowRequest \/ Denied \/ Allowed
    \/ GasPrice \/ Fetch \/ FetchFailed \/ NextBatch
    \/ CommitBatch \/ GetReceipt \/ Backoff \/ NotifyAnchored
    \/ RecordSuccessBreaker \/ RecordSuccessStats \/ RetriesExhausted
    \/ CycleOk \/ Sleep \/ Interrupt \/ Restart

Next == Service \/ Heal

\* The control loop with its collaborators.
Spec == Init /\ [][Next]_vars

\* The runtime keeps scheduling the one task of the loop, and a stopped
\* process is started again.
LiveSpec == Spec /\ WF_vars(Service)

\* The control loop, with the interrupt arriving at any suspension point.
CancelSpec == Init /\ [][Next \/ Cancel]_vars

\* The process as main wires it: the control loop and the HTTP server.
ServedSpec == Init /\ [][Next \/ ReadyHandler \/ ErrorsHandler]_vars

\* The HealthStates GET /ready is tried on: the flag either way, each mark
\* absent or set at second 0 or 1.
ReadyMarks == {None, Some(0), Some(1)}

ReadyStates ==
    { [HealthNew EXCEPT !.is_ready = r, !.last_l2_check = l,
                        !.last_sequencer_check = q] :
        r \in BOOLEAN, l \in ReadyMarks, q \in ReadyMarks }

\* The seconds at which it is tried: marks of every age around FreshSecs.
ReadyTimes == {1, FreshSecs - 1, FreshSecs, FreshSecs + 1}

\* A server whose HealthState is any of ReadyStates, at any of ReadyTimes.
ReadyInit ==
    /\ config \in Configs
    /\ pc = "create_provider"
    /\ stats = StatsDefault
    /\ breaker = BreakerNew
    /\ health = HealthNew
    /\ loc = LocalsNew
    /\ now \in ReadyTimes
    /\ pending = <<>>
    /\ notifications = <<>>
    /\ committed = {}
    /\ healthy = FALSE
    /\ calls = NoCalls
    /\ hist = NoHistory
    /\ served \in ReadyStates
    /\ http = None
    /\ locks = NoLocks

\* GET /ready over every such state.
ReadySpec == ReadyInit /\ [][ReadyHandler]_vars

\* The root texts commit_batch is tried on.  Bodies: empty, zeros of several
\* lengths, 32 bytes in lower and upper case and with a last digit only, 31
\* and 33 bytes, an odd number of digits, a character that is no hex digit,
\* a second prefix, an upper-case prefix; each bare and behind "0x".
Zeros(n) == [i \in 1..n |-> "0"]

Digits(n) == [i \in 1..n |-> HexDigit(i % 16)]

UpperDigits(n) ==
    [i \in 1..n |->
        IF i % 16 >= 10 THEN <<"A", "B", "C", "D", "E", "F">>[(i % 16) - 9]
        ELSE HexDigit(i % 16)]

RootBodies ==
    {<<>>, Zeros(1), Zeros(63), Zeros(64), Zeros(66),
     Digits(64), UpperDigits(64), Zeros(63) \o <<"1">>,
     Digits(62), Digits(66), Digits(63),
     [Digits(64) EXCEPT ![5] = "g"],
     ZeroRootText \o Digits(64), <<"0", "X">> \o Digits(64)}

RootTexts == RootBodies \cup { ZeroRootText \o body : body \in RootBodies }

RootFields == {"events_root", "prev_state_root", "new_state_root"}

\* One listed batch at the threshold: its events root any of RootTexts, or
\* one of its state roots 31 bytes or 32.
RootBacklogs ==
    { <<[Batch(1, min_events_for_anchor) EXCEPT !.events_root = text]>> :
        text \in RootTexts }
    \cup
    { <<[Batch(1, min_events_for_anchor) EXCEPT ![field] = text]>> :
        field \in {"prev_state_root", "new_state_root"},
        text \in {Digits(62), ZeroRootText \o Digits(64)} }

RootInit ==
    /\ config \in { c \in Configs : /\ c.max_commitments_per_cycle = 0
                                     /\ c.expected_l2_chain_id = 0 }
    /\ pc = "create_provider"
    /\ stats = StatsDefault
    /\ breaker = BreakerNew
    /\ health = HealthNew
    /\ loc = LocalsNew
    /\ now = 0
    /\ pending \in RootBacklogs
    /\ notifications = <<>>
    /\ committed = {}
    /\ healthy = FALSE
    /\ calls = NoCalls
    /\ hist = NoHistory
    /\ served = HealthNew
    /\ http = None
    /\ locks = NoLocks

\* The control loop over every such backlog.
RootSpec == RootInit /\ [][Next]_vars

\* The rings record_error and GET /errors are tried on: empty, around the
\* tail GET /errors returns, and around a full ring.
RingLens ==
    {0, 1, ErrorsLimit - 1, ErrorsLimit, ErrorsLimit + 1,
     MAX_RECENT_ERRORS - 1, MAX_RECENT_ERRORS}

CategoryOrder ==
    <<"Config", "L2Connection", "SequencerApi", "Transaction",
      "Authorization", "Internal">>

\* A ring of n records, the categories in turn, with the counts they leave.
RingOf(n) ==
    [i \in 1..n |->
        [category |-> CategoryOrder[(i % Len(CategoryOrder)) + 1],
         leaf |-> "Earlier"]]

RingState(n) ==
    [HealthNew EXCEPT
        !.recent_errors = RingOf(n),
        !.error_counts =
            [c \in ErrorCategories |->
                Cardinality({i \in 1..n : RingOf(n)[i].category = c})]]

\* A server whose HealthState holds any of these rings.
RingInit ==
    /\ config \in Configs
    /\ pc = "create_provider"
    /\ stats = StatsDefault
    /\ breaker = BreakerNew
    /\ health = HealthNew
    /\ loc = LocalsNew
    /\ now = 0
    /\ pending = <<>>
    /\ notifications = <<>>
    /\ committed = {}
    /\ healthy = FALSE
    /\ calls = NoCalls
    /\ hist = NoHistory
    /\ served \in { RingState(n) : n \in RingLens }
    /\ http = None
    /\ locks = NoLocks

\* record_error is called on the server's state, with an error of any
\* category.
RecordError ==
    /\ hist.recorded < MaxRecorded
    /\ \E c \in ErrorCategories :
         served' = Health_record_error(served, c, "Recorded")
    /\ hist' = [hist EXCEPT !.recorded = @ + 1]
    /\ UNCHANGED <<config, pc, stats, breaker, health, loc, now, Env, calls,
                   http, locks>>

\* record_error and GET /errors over every such state.
RingSpec == RingInit /\ [][RecordError \/ ErrorsHandler]_vars

\* ------------------------------------------------- the locks, step by step
\* Everything but the locks.
Data ==
    <<config, pc, stats, breaker, health, loc, now, Env, calls, hist, served,
      http>>

\* The requests holding a read guard of l.
Readers(l) == { r \in 1..MaxRequests : l \in locks.requests[r].held }

\* tokio's RwLock is fair: a reader gets l unless the writer holds it or
\* waits for it.
CanRead(l) ==
    /\ l \notin locks.loop.held
    /\ ~(locks.loop.waiting /\ Head(locks.loop.ops).on = l)

\* The loop with the first of its operations done.
Advanced(l) ==
    [l EXCEPT !.ops = Tail(@),
              !.at = IF Tail(l.ops) = <<>> THEN l.to ELSE @,
              !.waiting = FALSE]

\* The await the loop is suspended on completes, one way or another.
Resume ==
    /\ locks.loop.ops = <<>>
    /\ \E seg \in Segments :
         /\ seg.from = locks.loop.at
         /\ locks' = [locks EXCEPT !.loop =
                [@ EXCEPT !.ops = seg.ops, !.to = seg.to,
                          !.at = IF seg.ops = <<>> THEN seg.to ELSE @]]
    /\ UNCHANGED Data

\* lock.write().await returns the guard.
LoopAcquire ==
    /\ locks.loop.ops # <<>>
    /\ LET o == Head(locks.loop.ops) IN
         /\ o.op = "write"
         /\ o.on \notin locks.loop.held
         /\ Readers(o.on) = {}
         /\ locks' = [locks EXCEPT !.loop =
                [Advanced(@) EXCEPT !.held = @ \cup {o.on}]]
    /\ UNCHANGED Data

\* lock.write().await finds readers and queues behind them.
LoopWait ==
    /\ locks.loop.ops # <<>>
    /\ LET o == Head(locks.loop.ops) IN
         /\ o.op = "write"
         /\ Readers(o.on) # {}
         /\ ~locks.loop.waiting
         /\ locks' = [locks EXCEPT !.loop.waiting = TRUE]
    /\ UNCHANGED Data

\* The guard goes out of scope.
LoopRelease ==
    /\ locks.loop.ops # <<>>
    /\ LET o == Head(locks.loop.ops) IN
         /\ o.op = "drop"
         /\ locks' = [locks EXCEPT !.loop =
                [Advanced(@) EXCEPT !.held = @ \ {o.on}]]
    /\ UNCHANGED Data

\* A request arrives and its handler starts.
Request ==
    /\ \E r \in 1..MaxRequests, route \in Routes :
         /\ locks.requests[r].route = ""
         /\ locks' = [locks EXCEPT !.requests[r] =
                [route |-> route, ops |-> handler_locks(route), held |-> {}]]
    /\ UNCHANGED Data

\* lock.read().await returns the guard to a handler.
HandlerRead ==
    /\ \E r \in 1..MaxRequests :
         /\ locks.requests[r].ops # <<>>
         /\ LET o == Head(locks.requests[r].ops) IN
              /\ CanRead(o.on)
              /\ locks' = [locks EXCEPT !.requests[r] =
                     [@ EXCEPT !.ops = Tail(@),
                               !.held = IF o.op = "read" THEN @ \cup {o.on}
                                        ELSE @]]
    /\ UNCHANGED Data

\* The handler returns its response and its guards are dropped.
Respond ==
    /\ \E r \in 1..MaxRequests :
         /\ locks.requests[r].route # ""
         /\ locks.requests[r].ops = <<>>
         /\ locks' = [locks EXCEPT !.requests[r] = NoRequest]
    /\ UNCHANGED Data

LockInit ==
    /\ config \in { c \in Configs : /\ c.max_commitments_per_cycle = 0
                                     /\ c.expected_l2_chain_id = 0 }
    /\ pc = "create_provider"
    /\ stats = StatsDefault
    /\ breaker = BreakerNew
    /\ health = HealthNew
    /\ loc = LocalsNew
    /\ now = 0
    /\ pending = <<>>
    /\ notifications = <<>>
    /\ committed = {}
    /\ healthy = FALSE
    /\ calls = NoCalls
    /\ hist = NoHistory
    /\ served = HealthNew
    /\ http = None
    /\ locks = NoLocks

\* The loop and the server's handlers, one lock operation at a time.
LockSpec ==
    LockInit /\ [][Resume \/ LoopAcquire \/ LoopWait \/ LoopRelease
                   \/ Request \/ HandlerRead \/ Respond]_vars

\* record_error is called on the server's state with any error there is;
\* the ring keeps the ErrorRecord made of it.
RecordAnchorError ==
    /\ hist.recorded < MaxRecorded
    /\ \E e \in AnchorErrors :
         served' = Health_record_error(served, e.category, ErrorRecord(e))
    /\ hist' = [hist EXCEPT !.recorded = @ + 1]
    /\ UNCHANGED <<config, pc, stats, breaker, health, loc, now, Env, calls,
                   http, locks>>

\* A server with nothing recorded yet.
SeverityInit == LockInit /\ config.max_gas_price_gwei = 0

\* record_error over every error.
SeveritySpec == SeverityInit /\ [][RecordAnchorError]_vars

\* ================================================================== claims
\* The batch last handed back by anchor_with_retry, while the batch loop is
\* at its head again.
Returned == pc = "next_batch" /\ loc.results # <<>>
LastResult == loc.results[Len(loc.results)]

\* Calls of notify_anchored made for batch id in the current cycle.
SentFor(id) == { k \in 1..Len(calls.sent) : calls.sent[k].batch_id = id }

\* C1: a batch whose event_count is below min_events_for_anchor is never
\* handed to commitBatch and never notified (so it is neither on the chain
\* nor among the sequencer's notifications), and the step of the batch loop
\* that meets it changes no statistic.
C1_BelowThresholdSkipped ==
    /\ [](\A i \in 1..Len(pending) :
            pending[i].event_count < min_events_for_anchor =>
              /\ calls.commit[pending[i].batch_id] = 0
              /\ SentFor(pending[i].batch_id) = {}
              /\ pending[i].batch_id \notin committed)
    /\ [][(/\ pc = "next_batch"
           /\ loc.idx <= Len(loc.commitments)
           /\ loc.commitments[loc.idx].event_count < min_events_for_anchor)
          => (stats' = stats /\ calls' = calls /\ pc' = "next_batch")]_vars

\* C1 witness: the batch loop has passed a batch below the threshold.
C1_Witness ==
    /\ pc = "next_batch"
    /\ loc.idx > 1
    /\ loc.commitments[loc.idx - 1].event_count < min_events_for_anchor

\* C2: a cycle in which allow_request answered false makes no gas-price read,
\* no fetch and no commitBatch, and ends with circuit_breaker_open_skips and
\* total_cycles each one above what the cycle found.
C2_DeniedCycleIsIdle ==
    (pc \in {"denied", "sleep"} /\ ~loc.allow_request) =>
        /\ calls.gas = 0
        /\ calls.fetch = 0
        /\ \A i \in BatchIds : calls.commit[i] = 0
        /\ stats.total_cycles = calls.cycle_mark.total_cycles + 1
        /\ pc = "sleep" =>
             stats.circuit_breaker_open_skips =
                 calls.cycle_mark.circuit_breaker_open_skips + 1

\* C2 witness: a denied cycle has reached its sleep.
C2_Witness == pc = "sleep" /\ ~loc.allow_request /\ stats.total_cycles >= 1

\* C3: once the breaker has become open, allow_request answers true only when
\* the reset timeout has run out since the last recorded failure.
C3_NoAllowBeforeTimeout == pc = "allowed" => ~hist.tripped

\* C4: when the batches that exhausted their retries in a row, the last of
\* them in the cycle that is ending, number at least failure_threshold, the
\* breaker is open when the cycle ends and the next one begins.
C4_StreakOpensBreaker ==
    (/\ pc \in {"sleep", "cycle_start"}
     /\ calls.exhausted > 0
     /\ hist.streak >= circuit_breaker_failure_threshold)
        => breaker.state = "open"

\* C4 witness: such a streak has just ended a cycle.
C4_Witness ==
    /\ pc = "sleep"
    /\ calls.exhausted > 0
    /\ hist.streak >= circuit_breaker_failure_threshold

\* C5: a batch handed back as failed was given to commitBatch exactly
\* max_retries times in the cycle, raised total_failed by exactly one, added
\* exactly one record to the recent-error ring, and was not notified.
C5_ExhaustedBatchCountedOnce ==
    (Returned /\ ~LastResult.success) =>
        /\ calls.commit[LastResult.batch_id] = max_retries
        /\ calls.commit_ok[LastResult.batch_id] = 0
        /\ stats.total_failed = calls.batch_mark.stats.total_failed + 1
        /\ Len(health.recent_errors) = calls.batch_mark.errors + 1
        /\ health.recent_errors[Len(health.recent_errors)].category
               = "Transaction"
        /\ SentFor(LastResult.batch_id) = {}

\* C5 witness: a batch has been handed back as failed.
C5_Witness == Returned /\ ~LastResult.success

\* C6: in every cycle the calls of notify_anchored made for a batch are as
\* many as the commitBatch calls that succeeded for it (one less while the
\* notification of the current success is still to be sent), and each
\* carries a 0x-prefixed, non-empty hash and the chain id read at start-up.
C6_OneNotificationPerCommit ==
    /\ \A i \in BatchIds :
         Cardinality(SentFor(i)) =
             calls.commit_ok[i]
               - (IF pc = "notify" /\ loc.commitments[loc.idx].batch_id = i
                  THEN 1 ELSE 0)
    /\ \A k \in 1..Len(calls.sent) :
         LET n == calls.sent[k].notification IN
           /\ Len(n.chain_tx_hash) > 2
           /\ SubSeq(n.chain_tx_hash, 1, 2) = <<"0", "x">>
           /\ n.chain_id = L2ChainId
           /\ loc.chain_id = Some(n.chain_id)

\* C6 witness: a notification has been sent for a committed batch.
C6_Witness == pc = "rs_breaker" /\ calls.sent # <<>>

\* The notification sent for the batch last handed back was not delivered.
LastNotifyFailed ==
    \E k \in SentFor(LastResult.batch_id) : ~calls.sent[k].delivered

\* C7: a batch whose commit succeeded and whose notification failed is handed
\* back as anchored: total_anchored is one up, consecutive_failures is 0,
\* total_failed is as the batch found it, the breaker has recorded one
\* success, and sequencer_api_failures is one up.
C7_NotifyFailureStillAnchored ==
    (Returned /\ LastResult.success /\ LastNotifyFailed) =>
        /\ stats.total_anchored = calls.batch_mark.stats.total_anchored + 1
        /\ stats.consecutive_failures = 0
        /\ stats.total_failed = calls.batch_mark.stats.total_failed
        /\ stats.sequencer_api_failures =
               calls.batch_mark.stats.sequencer_api_failures + 1
        /\ breaker = CB_record_success(calls.batch_mark.breaker)
        /\ stats.circuit_breaker_state = breaker.state

\* C7 witness: a batch was anchored although its notification failed.
C7_Witness == Returned /\ LastResult.success /\ LastNotifyFailed

\* C8: a batch that is already on the chain and is listed again (its
\* notification failed) has been sent a fresh notification by the time the
\* cycle's batch loop has dealt with it.
C8_RelistedBatchRenotified ==
    \A k \in 1..Len(loc.results) :
        (/\ pc = "next_batch"
         /\ loc.results[k].batch_id \in committed
         /\ calls.commit_ok[loc.results[k].batch_id] = 0)
            => SentFor(loc.results[k].batch_id) # {}

\* C9: of two listed batches of one (tenant, store) scope, the later one is
\* not handed to commitBatch while the earlier one is not on the chain.
C9_ScopeOrderKept ==
    \A i, j \in 1..Len(pending) :
        (/\ i < j
         /\ SameScope(pending[i], pending[j])
         /\ pending[i].sequence_end < pending[j].sequence_start
         /\ calls.commit[pending[j].batch_id] > 0)
            => pending[i].batch_id \in committed

\* A committed batch is listed only while its notification is on the way.
NoneStuck == \A i \in 1..Len(pending) : pending[i].batch_id \notin committed

\* Batch id is listed with at least min_events_for_anchor events.
Anchorable(id) ==
    \E i \in 1..Len(pending) :
        /\ pending[i].batch_id = id
        /\ pending[i].event_count >= min_events_for_anchor

\* C10: from a cycle start after which no call fails, every listed batch at
\* or above the threshold is in the end notified and leaves the backlog,
\* whatever max_commitments_per_cycle and the rest of the backlog are.
C10_EveryBatchAnchored ==
    \A id \in BatchIds :
        [] ((pc = "cycle_start" /\ healthy /\ NoneStuck /\ Anchorable(id))
              => <> (id \notin ListedIds(pending)))
\* C11: happy path.  In the first process, while every call has succeeded
\* and every pending batch is at or above the threshold: nothing is counted
\* as failed, every batch has at most one notification, total_anchored is
\* the number of notifications (less the one whose record_success is still
\* to run), a batch on the chain is no longer listed once its notification
\* is out, and once enough cycles have run for the cap the backlog is empty
\* with total_anchored equal to the number of batches produced.  Every
\* commit_batch call is for a batch not yet on the chain (so none is
\* submitted twice), and each anchor adds the batch's event count to
\* total_events_anchored.
NotifiedIds == { notifications[k].batch_id : k \in 1..Len(notifications) }
Produced == Len(pending) + Len(notifications)
AllAbove ==
    \A i \in 1..Len(pending) : pending[i].event_count >= min_events_for_anchor
HappyPath == hist.clean /\ AllAbove
EnoughCycles ==
    \/ config.max_commitments_per_cycle = 0 /\ stats.total_cycles >= 1
    \/ config.max_commitments_per_cycle * stats.total_cycles >= Produced
C11_HappyPath ==
    /\ [](HappyPath =>
            /\ stats.total_failed = 0 /\ stats.consecutive_failures = 0
            /\ Cardinality(NotifiedIds) = Len(notifications)
            /\ stats.total_anchored = Len(notifications)
                   - (IF pc \in {"rs_breaker", "rs_stats"} THEN 1 ELSE 0)
            /\ \A i \in committed :
                   i \in ListedIds(pending) => pc \in {"receipt", "notify"}
            /\ (pc = "sleep" /\ EnoughCycles) =>
                   /\ pending = <<>>
                   /\ stats.total_anchored = Produced
                   /\ NotifiedIds = committed)
    /\ [][(HappyPath /\ hist'.clean) =>
            /\ \A i \in BatchIds :
                   calls'.commit[i] = calls.commit[i] + 1 =>
                       i \notin committed /\ i \in committed'
            /\ stats'.total_anchored = stats.total_anchored + 1 =>
                   stats'.total_events_anchored = stats.total_events_anchored
                       + loc.commitments[loc.idx].event_count]_vars
C11_Witness ==
    /\ HappyPath /\ pc = "sleep" /\ pending = <<>>
    /\ stats.total_anchored = NumBatches
    /\ stats.total_events_anchored = NumBatches * min_events_for_anchor

\* C12: gas gate.  Once the gas price has been read in a cycle (the gate is
\* on, one read): a price above max_gas_price_gwei * 10^9 wei has added one
\* to gas_price_skips and the cycle returns with no fetch and no commit_batch
\* call; a price at or below it adds no skip and the cycle is at the fetch
\* or has made it.
GasRead == loc.gas_price # None
AboveCeiling == loc.gas_price[1] > config.max_gas_price_gwei * GWEI
C12_GasGate ==
    GasRead =>
        /\ config.max_gas_price_gwei > 0 /\ calls.gas = 1
        /\ AboveCeiling =>
               /\ pc = "cycle_ok"
               /\ stats.gas_price_skips = calls.cycle_mark.gas_price_skips + 1
               /\ calls.fetch = 0
               /\ \A i \in BatchIds : calls.commit[i] = 0
        /\ ~AboveCeiling =>
               /\ stats.gas_price_skips = calls.cycle_mark.gas_price_skips
               /\ pc = "fetch" \/ calls.fetch = 1
C12_Witness ==
    /\ GasRead /\ AboveCeiling /\ pc = "cycle_ok"
    /\ stats.gas_price_skips = 2

\* C13: per-cycle cap.  The list a cycle works on is the fetched list itself
\* when max_commitments_per_cycle is 0, and its first c entries when the cap
\* is c > 0, whatever their event counts; commit_batch is called only for
\* batches of that list, so for at most c batches in the cycle.
InBatchLoop ==
    pc \in {"next_batch", "commit", "receipt", "backoff", "notify",
            "rs_breaker", "rs_stats", "retries_exhausted"}
Submitted == { i \in BatchIds : calls.commit[i] > 0 }
Cap == config.max_commitments_per_cycle
C13_PerCycleCap ==
    /\ [](/\ Cap > 0 => Cardinality(Submitted) <= Cap
          /\ InBatchLoop =>
                 /\ Submitted \subseteq ListedIds(loc.commitments)
                 /\ Cap > 0 => Len(loc.commitments) <= Cap)
    /\ [][(pc = "fetch" /\ pc' = "next_batch") =>
            /\ Len(loc'.commitments) =
                   IF Cap = 0 \/ Len(pending) <= Cap THEN Len(pending)
                                                     ELSE Cap
            /\ \A k \in 1..Len(loc'.commitments) :
                   loc'.commitments[k] = pending[k]]_vars
C13_Witness ==
    /\ config.max_commitments_per_cycle = 1 /\ Len(pending) = 2
    /\ pc = "next_batch" /\ loc.idx = 2 /\ Len(loc.commitments) = 1
    /\ loc.commitments[1].event_count < min_events_for_anchor
    /\ Submitted = {}

\* C14: start-up gate.  The ready flag is set only with the chain id read,
\* the expected chain id 0 or equal to it, and the signer found authorized;
\* while the flag is not set no cycle has run (no cycle counted, no fetch, no
\* commit_batch call, the loop not entered); a chain id that differs from
\* the expected one keeps the process in start-up or failed; an
\* authorization check that errs or answers false ends run in failure; and a
\* failed run has the flag unset.
StartUp ==
    pc \in {"create_provider", "get_chain_id", "is_authorized", "rf_stats",
            "rf_breaker", "rf_mirror", "failed"}
C14_StartUpGate ==
    /\ [](/\ health.is_ready =>
                 /\ loc.chain_id = Some(L2ChainId)
                 /\ config.expected_l2_chain_id \in {0, L2ChainId}
                 /\ loc.is_authorized = Some(TRUE)
          /\ ~health.is_ready =>
                 /\ StartUp /\ stats.total_cycles = 0
                 /\ calls.fetch = 0 /\ calls.gas = 0
                 /\ \A i \in BatchIds : calls.commit[i] = 0
          /\ config.expected_l2_chain_id \notin {0, L2ChainId} =>
                 ~health.is_ready /\ pc # "is_authorized"
          /\ pc = "failed" => ~health.is_ready)
    /\ [][(pc = "is_authorized" /\ pc' # pc
               /\ loc'.is_authorized # Some(TRUE)) =>
              pc' = "failed" /\ ~health'.is_ready]_vars
C14_Witness ==
    /\ pc = "failed" /\ loc.chain_id = Some(L2ChainId)
    /\ loc.is_authorized = Some(FALSE) /\ ~health.is_ready

\* C15: GET /ready.  The response to GET /ready has status 200 exactly when
\* the ready flag is set and both the L2 mark and the sequencer mark exist
\* and are less than 60 seconds old, and status 503 in every other case; its
\* body reports the same three facts.
L2MarkYoung ==
    served.last_l2_check # None /\ now - served.last_l2_check[1] < 60
SequencerMarkYoung ==
    /\ served.last_sequencer_check # None
    /\ now - served.last_sequencer_check[1] < 60
C15_ReadyEndpoint ==
    http # None =>
        /\ http[1].status \in {200, 503}
        /\ http[1].status = 200 <=>
               served.is_ready /\ L2MarkYoung /\ SequencerMarkYoung
        /\ http[1].ready <=> http[1].status = 200
        /\ http[1].l2_connected <=> L2MarkYoung
        /\ http[1].sequencer_connected <=> SequencerMarkYoung
C15_Witness ==
    /\ http # None /\ http[1].status = 200
    /\ now - served.last_l2_check[1] = 59
    /\ now - served.last_sequencer_check[1] = 59

\* C16: the HTTP surface reads what the loop writes.  A GET /ready served
\* while the loop's ready flag is set and the loop's L2 and sequencer marks
\* are less than 60 seconds old answers 200, and a GET /errors answers with
\* the loop's error counts and the last records of the loop's error ring.
LoopMarksYoung ==
    /\ health.last_l2_check # None /\ now - health.last_l2_check[1] < 60
    /\ health.last_sequencer_check # None
    /\ now - health.last_sequencer_check[1] < 60
ReadyServed == http' # http /\ "ready" \in DOMAIN http'[1]
ErrorsServed == http' # http /\ "recent_errors" \in DOMAIN http'[1]
C16_SharedHealthState ==
    [][/\ (ReadyServed /\ health.is_ready /\ LoopMarksYoung) =>
              http'[1].status = 200
       /\ ErrorsServed =>
              /\ http'[1].counts = health.error_counts
              /\ http'[1].recent_errors =
                     get_recent_errors(health, ErrorsLimit)]_vars

\* C17: retries, then success.  A batch handed back as anchored after j
\* calls of commit_batch (the first j - 1 failed, j <= max_retries) is one up
\* in total_anchored, has total_failed as the batch found it and
\* consecutive_failures 0, and has waited retry_delay_secs * i after failed
\* attempt i and nothing after the last attempt: retry_delay_secs *
\* (1 + ... + (j - 1)) seconds in all; every back-off step waits
\* retry_delay_secs times the number of the attempt that failed, and no
\* other step of the attempt lets time pass.
Attempts == calls.commit[LastResult.batch_id]
C17_RetriesThenSuccess ==
    /\ []((Returned /\ LastResult.success) =>
            /\ Attempts \in 1..max_retries
            /\ stats.total_anchored =
                   calls.batch_mark.stats.total_anchored + 1
            /\ stats.total_failed = calls.batch_mark.stats.total_failed
            /\ stats.consecutive_failures = 0
            /\ now - calls.batch_mark.now =
                   retry_delay_secs * ((Attempts * (Attempts - 1)) \div 2))
    /\ [][/\ (pc = "backoff" /\ pc' # pc) =>
                /\ loc.attempt < max_retries
                /\ now' = now + retry_delay_secs * loc.attempt
                /\ loc'.attempt = loc.attempt + 1
          /\ (/\ pc \in {"commit", "receipt", "notify", "rs_breaker",
                          "rs_stats"}
              /\ pc' # "stopped") => now' = now]_vars
C17_Witness ==
    /\ Returned /\ LastResult.success /\ Attempts = 3
    /\ now - calls.batch_mark.now = 3 * retry_delay_secs

\* C18: breaker recovery.  When circuit_breaker_half_open_success_threshold
\* cycles in a row have fetched successfully with the breaker half-open and
\* no failure recorded in between, the breaker is closed at the end of the
\* last of them, whatever the fetched lists held.
C18_FetchSuccessClosesBreaker ==
    (/\ pc = "sleep"
     /\ hist.probes >= circuit_breaker_half_open_success_threshold) =>
        breaker.state = "closed"

\* C19: cancellation.  The loop does not exit while a commit_batch call has
\* dispatched its transaction and has not yet got its receipt or its error;
\* and once the loop has exited, no further call of commit_batch is made
\* and no further notification is sent in that process.
C19_DispatchedCallCompletes ==
    [][/\ pc' = "stopped" => (pc # "receipt" /\ loc.pending_tx = None)
       /\ (pc = "stopped" /\ pc' = "stopped") =>
              calls' = calls /\ committed' = committed]_vars

\* C20: a reverted transaction is not retried.  Once a call of commit_batch
\* for the current batch has ended in a revert, the batch loop neither backs
\* off for another attempt nor stands before one, and that call stays the
\* batch's only call of commit_batch in the cycle.
CurrentBatch == loc.commitments[loc.idx].batch_id
C20_RevertedNotRetried ==
    (/\ pc \in {"backoff", "commit", "receipt"}
     /\ loc.last_error = Some("reverted")) =>
        /\ pc \notin {"backoff", "commit"}
        /\ calls.commit[CurrentBatch] = 1

\* C21: the recent-error ring.  The ring never holds more than 100 records;
\* a record_error on a ring of fewer than 100 records appends its record, one
\* on a ring of 100 records drops the first record, keeps the others in
\* their order and puts its record last; and GET /errors answers with the
\* last min(20, length) records of the ring, in the ring's order.
C21_ErrorRing ==
    /\ [](Len(served.recent_errors) <= 100)
    /\ [][served'.recent_errors # served.recent_errors =>
            LET old == served.recent_errors
                new == served'.recent_errors
            IN /\ new[Len(new)].leaf = "Recorded"
               /\ Len(old) < 100 =>
                      /\ Len(new) = Len(old) + 1
                      /\ \A k \in 1..Len(old) : new[k] = old[k]
               /\ Len(old) = 100 =>
                      /\ Len(new) = 100
                      /\ \A k \in 1..99 : new[k] = old[k + 1]]_vars
    /\ [][ErrorsServed =>
            LET ring == served.recent_errors
                tail == http'[1].recent_errors
            IN /\ Len(tail) = IF Len(ring) < 20 THEN Len(ring) ELSE 20
               /\ \A k \in 1..Len(tail) :
                      tail[k] = ring[Len(ring) - Len(tail) + k]]_vars
C21_Witness ==
    /\ Len(served.recent_errors) = 100
    /\ served.recent_errors[99].leaf = "Recorded"
    /\ served.recent_errors[98].leaf = "Earlier"
    /\ http # None /\ "recent_errors" \in DOMAIN http[1]
    /\ Len(http[1].recent_errors) = 20
    /\ http[1].recent_errors[20] = served.recent_errors[100]

\* C22: root parsing.  With an optional leading "0x" taken off, a root text
\* that is empty or all '0' is the zero root; any other text is refused
\* unless it is 64 hex digits, and then it is the 32 bytes they spell; and
\* a batch with a refused root is never on the chain.  The roots
\* commit_batch holds while its transaction is out are those of the batch's
\* texts.
Body(text) ==
    IF Len(text) >= 2 /\ SubSeq(text, 1, 2) = <<"0", "x">>
    THEN SubSeq(text, 3, Len(text)) ELSE text
ZeroLike(text) == \A i \in 1..Len(Body(text)) : Body(text)[i] = "0"
Spells32(text) ==
    /\ Len(Body(text)) = 64
    /\ \A i \in 1..64 : HexValue(Body(text)[i]) \in 0..15
Spelled(text) ==
    [i \in 1..32 |-> 16 * HexValue(Body(text)[2 * i - 1])
                       + HexValue(Body(text)[2 * i])]
RootOf(text) ==
    IF ZeroLike(text) THEN [i \in 1..32 |-> 0] ELSE Spelled(text)
Refused(text) == ~ZeroLike(text) /\ ~Spells32(text)
C22_RootParsing ==
    /\ pc = "commit" =>
          \A f \in RootFields :
             LET text == loc.commitments[loc.idx][f] IN
             /\ Refused(text) => parse_bytes32(text) = None
             /\ ~Refused(text) => parse_bytes32(text) = Some(RootOf(text))
    /\ \A k \in 1..Len(pending) :
          pending[k].batch_id \in committed =>
             \A f \in RootFields : ~Refused(pending[k][f])
    /\ pc = "receipt" =>
          /\ loc.roots # None
          /\ \A f \in RootFields :
                 /\ ~Refused(loc.commitments[loc.idx][f])
                 /\ loc.roots[1][f] = RootOf(loc.commitments[loc.idx][f])
    /\ (pc = "rf_stats" /\ loc.last_error = Some("invalid_root")) =>
          /\ \E f \in RootFields : Refused(loc.commitments[loc.idx][f])
          /\ loc.commitments[loc.idx].batch_id \notin committed
C22_Witness ==
    /\ pc = "retries_exhausted" /\ loc.last_error = Some("invalid_root")
    /\ loc.commitments[loc.idx].events_root = ZeroRootText \o Digits(66)
    /\ committed = {}

\* C23: closed-state transitions.  A failure recorded on a closed breaker
\* opens it exactly when the consecutive-failure count handed in is at least
\* failure_threshold, and then the last-failure time is the time of the
\* call; below the threshold the breaker stays closed; either way the
\* settings and the half-open count are as before.  A success recorded on
\* a closed breaker changes nothing.  A closed breaker leaves closed by a
\* recorded failure only, and to open.
FailureRecorded == pc = "rf_breaker" /\ pc' = "rf_mirror"
SuccessRecorded == pc = "rs_breaker" /\ pc' = "rs_stats"
C23_ClosedTransitions ==
    /\ [][(FailureRecorded /\ breaker.state = "closed") =>
            /\ breaker'.state =
                   IF loc.consecutive_failures
                          >= circuit_breaker_failure_threshold
                   THEN "open" ELSE "closed"
            /\ breaker'.state = "open" =>
                   breaker'.last_failure_time = Some(now)
            /\ breaker' = [breaker EXCEPT
                              !.state = breaker'.state,
                              !.last_failure_time =
                                  breaker'.last_failure_time]]_vars
    /\ [][(SuccessRecorded /\ breaker.state = "closed") =>
            breaker' = breaker]_vars
    /\ [][(breaker.state = "closed" /\ breaker'.state # "closed"
           /\ pc # "stopped") =>
            FailureRecorded /\ breaker'.state = "open"]_vars
C23_Witness ==
    /\ pc = "rf_mirror" /\ loc.ret = "retries_exhausted"
    /\ calls.batch_mark.breaker.state = "closed"
    /\ calls.batch_mark.stats.consecutive_failures =
           circuit_breaker_failure_threshold - 1
    /\ breaker.state = "open" /\ breaker.last_failure_time = Some(now)

\* C24: half-open transitions.  A failure recorded on a half-open breaker
\* opens it, with the last-failure time the time of the call and the
\* half-open success count 0.  A success recorded on a half-open breaker
\* closes it exactly when the count, one up, reaches
\* half_open_success_threshold; otherwise the breaker stays half-open with
\* the count one up.  A half-open breaker's count is below the threshold.
C24_HalfOpenTransitions ==
    /\ [](breaker.state = "half-open" =>
             breaker.half_open_success_count
                 < circuit_breaker_half_open_success_threshold)
    /\ [][(FailureRecorded /\ breaker.state = "half-open") =>
            breaker' = [breaker EXCEPT !.state = "open",
                                       !.last_failure_time = Some(now),
                                       !.half_open_success_count = 0]]_vars
    /\ [][(SuccessRecorded /\ breaker.state = "half-open") =>
            IF breaker.half_open_success_count + 1
                   = circuit_breaker_half_open_success_threshold
            THEN breaker'.state = "closed"
            ELSE breaker' = [breaker EXCEPT
                                !.half_open_success_count = @ + 1]]_vars
C24_Witness ==
    /\ pc = "rf_mirror" /\ loc.ret = "retries_exhausted"
    /\ calls.batch_mark.breaker.state = "half-open"
    /\ calls.batch_mark.breaker.half_open_success_count = 1
    /\ breaker.state = "open" /\ breaker.half_open_success_count = 0
    /\ breaker.last_failure_time = Some(now)

\* C25: the open-state probe.  An open breaker has a last-failure time.  An
\* allow_request on an open breaker at least reset_timeout seconds after
\* that time answers true and leaves the breaker half-open with a half-open
\* success count of 0 and nothing else changed; before that it answers
\* false and changes nothing.
AllowAsked == pc = "allow" /\ pc' # pc
TimeoutElapsed ==
    now - breaker.last_failure_time[1] >= circuit_breaker_reset_timeout_secs
C25_OpenProbe ==
    /\ [](breaker.state = "open" => breaker.last_failure_time # None)
    /\ [][(AllowAsked /\ breaker.state = "open") =>
            IF TimeoutElapsed
            THEN /\ pc' = "allowed" /\ loc'.allow_request
                 /\ breaker' = [breaker EXCEPT
                                    !.state = "half-open",
                                    !.half_open_success_count = 0]
            ELSE /\ pc' = "denied" /\ ~loc'.allow_request
                 /\ breaker' = breaker]_vars
C25_Witness ==
    /\ pc = "allowed" /\ loc.allow_request
    /\ stats.circuit_breaker_state = "open"
    /\ breaker.state = "half-open" /\ breaker.half_open_success_count = 0
    /\ now - breaker.last_failure_time[1] = circuit_breaker_reset_timeout_secs

\* C26: one commit_batch call at a time.  A transaction is out only while
\* the loop waits for its receipt.  In the batch loop every batch before
\* the current one is finished (skipped below the threshold, or its result
\* returned), no batch after the current one has had a commit_batch call or
\* a result, and the results stand in the order of the fetched list, which
\* is the order of the sequencer's list.  Outside the batch loop and the
\* failure it may end in, no attempt is under way; and a fetch is made with
\* no attempt under way, no result held and no commit_batch call made in
\* its cycle.
Position(id) ==
    CHOOSE k \in 1..Len(loc.commitments) : loc.commitments[k].batch_id = id
HasResult(id) ==
    \E j \in 1..Len(loc.results) : loc.results[j].batch_id = id
Finished(k) ==
    \/ loc.commitments[k].event_count < min_events_for_anchor
    \/ HasResult(loc.commitments[k].batch_id)
BetweenBatches ==
    pc \in {"cycle_start", "allow", "allowed", "denied", "gas_price",
            "fetch", "fetch_failed", "next_batch", "cycle_ok", "sleep"}
C26_OneCommitAtATime ==
    /\ [](/\ loc.pending_tx # None => pc = "receipt"
          /\ InBatchLoop =>
                /\ \A k \in 1..Len(loc.commitments) :
                      /\ k < loc.idx => Finished(k)
                      /\ k > loc.idx =>
                            /\ calls.commit[loc.commitments[k].batch_id] = 0
                            /\ ~HasResult(loc.commitments[k].batch_id)
                      /\ loc.commitments[k] \in
                            { pending[n] : n \in 1..Len(pending) } =>
                               \A m \in 1..(k - 1) :
                                  \A n \in 1..Len(pending) :
                                     pending[n] = loc.commitments[m] =>
                                        \E p \in (n + 1)..Len(pending) :
                                           pending[p] = loc.commitments[k]
                /\ \A i, j \in 1..Len(loc.results) :
                      i < j => Position(loc.results[i].batch_id)
                                  < Position(loc.results[j].batch_id)
          /\ BetweenBatches => loc.attempt = 0 /\ loc.pending_tx = None)
    /\ [][calls'.fetch = calls.fetch + 1 =>
            /\ loc.attempt = 0 /\ loc.pending_tx = None
            /\ loc.results = <<>>
            /\ \A i \in BatchIds : calls.commit[i] = 0]_vars
C26_Witness ==
    /\ pc = "receipt" /\ loc.idx = 2 /\ Len(loc.results) = 1
    /\ ~loc.results[1].success
    /\ calls.commit[loc.commitments[1].batch_id] = max_retries
    /\ calls.commit[loc.commitments[2].batch_id] = 1

\* C27: failures by category.  Every record_failure adds one to
\* total_failed, one to consecutive_failures and one to a per-category
\* failure counter, whatever the category; and total_failed equals the sum
\* of the per-category failure counters the statistics hold.
CategoryFailures ==
    stats.l2_connection_failures + stats.sequencer_api_failures
C27_FailuresByCategory ==
    /\ [][(pc = "rf_stats" /\ pc' = "rf_breaker") =>
            /\ stats'.total_failed = stats.total_failed + 1
            /\ stats'.consecutive_failures = stats.consecutive_failures + 1
            /\ CategoryFailures' = CategoryFailures + 1]_vars
    /\ [](stats.total_failed = CategoryFailures)

\* C28: a cycle that ended early on a failed gas-price read (one gas-price
\* read, no fetch, l2_connection_failures one up) has the L2-healthy
\* timestamp as the cycle found it.
GasReadFailedCycle ==
    /\ pc = "sleep" /\ calls.gas = 1 /\ calls.fetch = 0
    /\ stats.l2_connection_failures =
           calls.cycle_mark.l2_connection_failures + 1
C28_GasFailureKeepsL2Mark ==
    GasReadFailedCycle =>
        stats.last_l2_healthy = calls.cycle_mark.last_l2_healthy

\* C29: a failed fetch.  Once a cycle's failed fetch has been recorded,
\* total_failed, consecutive_failures and sequencer_api_failures are each
\* one above what the cycle found, the breaker has the time of the call as
\* its last-failure time and is open if consecutive_failures has reached
\* failure_threshold, no commit_batch call has been made in the cycle, and
\* the sequencer-healthy timestamp is as the cycle found it; the failing
\* fetch itself changes neither mark.  A successful fetch sets both
\* sequencer marks to the time of the call.
FetchFailedCycle ==
    \/ pc = "fetch_failed"
    \/ pc \in {"cycle_ok", "sleep"} /\ calls.fetch = 1
         /\ stats.sequencer_api_failures =
                calls.cycle_mark.sequencer_api_failures + 1
         /\ calls.sent = <<>>
C29_FetchFailure ==
    /\ [](FetchFailedCycle =>
            /\ stats.total_failed = calls.cycle_mark.total_failed + 1
            /\ stats.consecutive_failures =
                   calls.cycle_mark.consecutive_failures + 1
            /\ stats.sequencer_api_failures =
                   calls.cycle_mark.sequencer_api_failures + 1
            /\ stats.l2_connection_failures =
                   calls.cycle_mark.l2_connection_failures
            /\ breaker.last_failure_time = Some(now)
            /\ stats.consecutive_failures
                   >= circuit_breaker_failure_threshold =>
                      breaker.state = "open"
            /\ \A i \in BatchIds : calls.commit[i] = 0
            /\ stats.last_sequencer_healthy =
                   calls.cycle_mark.last_sequencer_healthy)
    /\ [][(pc = "fetch" /\ pc' = "rf_stats") =>
            /\ stats' = stats
            /\ health'.last_sequencer_check = health.last_sequencer_check
            /\ loc'.error_type = "SequencerApi"]_vars
    /\ [][(pc = "fetch" /\ pc' \in {"next_batch", "cycle_ok"}) =>
            /\ stats'.last_sequencer_healthy = Some(now)
            /\ health'.last_sequencer_check = Some(now)]_vars
C29_Witness ==
    /\ pc = "fetch_failed" /\ stats.total_failed = 1
    /\ stats.last_sequencer_healthy # None
    /\ stats.last_sequencer_healthy[1] < now
    /\ breaker.last_failure_time = Some(now)

\* C30: success is recorded before the notification.  When the sequencer
\* receives the notification for a batch, total_anchored is already one
\* above what the batch found, with the batch's events added to
\* total_events_anchored.
NotificationReceived == Len(notifications') = Len(notifications) + 1
C30_CountedBeforeNotified ==
    [][NotificationReceived =>
        /\ stats.total_anchored = calls.batch_mark.stats.total_anchored + 1
        /\ stats.total_events_anchored =
               calls.batch_mark.stats.total_events_anchored
                   + loc.commitments[loc.idx].event_count]_vars

\* C31: whenever the loop is suspended on a call, on the interval sleep or
\* on a back-off it holds no lock and waits for none; it never holds two
\* locks at once; while it is suspended every handler under way can take the
\* lock it asks for next; and whenever the loop waits for a lock it holds
\* none and the lock is free or a reader of it can go on, so loop and
\* handlers never wait for each other.
Suspended ==
    locks.loop.ops = <<>> /\ locks.loop.at \in SuspensionPoints
CanGoOn(r) ==
    \/ locks.requests[r].ops = <<>>
    \/ CanRead(Head(locks.requests[r].ops).on)
C31_NoLockAcrossSuspension ==
    /\ Suspended => locks.loop.held = {} /\ ~locks.loop.waiting
    /\ Cardinality(locks.loop.held) <= 1
    /\ Suspended => \A r \in 1..MaxRequests : CanGoOn(r)
    /\ locks.loop.waiting =>
         /\ locks.loop.held = {}
         /\ \/ Readers(Head(locks.loop.ops).on) = {}
            \/ \E r \in Readers(Head(locks.loop.ops).on) : CanGoOn(r)
    /\ \A r \in 1..MaxRequests :
         ~CanGoOn(r) => locks.loop.held # {} \/ locks.loop.waiting

\* The loop suspended on the fetch while /metrics holds the statistics for
\* reading and has more locks to take.
C31_Witness ==
    /\ Suspended
    /\ locks.loop.at = "fetch"
    /\ \E r \in 1..MaxRequests :
         /\ locks.requests[r].route = "/metrics"
         /\ StatsLock \in locks.requests[r].held
         /\ locks.requests[r].ops # <<>>

\* C32: run returns an error only from start-up, before the first cycle is
\* counted and before the ready flag is set; and after a failure inside a
\* cycle (a gas-price read, a fetch, a commit_batch attempt of any kind, the
\* last attempt of a batch, a notification) the loop comes to its head again.
CycleFailure ==
    \/ pc \in {"rf_stats", "rf_breaker", "rf_mirror"} /\ loc.ret # "failed"
    \/ pc \in {"fetch_failed", "backoff", "retries_exhausted"}
    \/ /\ pc = "rs_breaker"
       /\ calls.sent # <<>>
       /\ ~calls.sent[Len(calls.sent)].delivered
ReturnsFromStartUp ==
    pc' = "failed" /\ pc # "failed"
        => /\ StartUp
           /\ stats.total_cycles = 0
           /\ ~health.is_ready
C32_LoopSurvivesFailures ==
    /\ [][ReturnsFromStartUp]_vars
    /\ [](pc = "failed" => stats.total_cycles = 0 /\ ~health.is_ready)
    /\ CycleFailure ~> pc = "cycle_start"

\* The third cycle under way after a failed gas-price read, a batch that
\* exhausted its retries and a failed notification.
C32_Witness ==
    /\ pc = "allow"
    /\ stats.total_cycles = 3
    /\ stats.l2_connection_failures >= 1
    /\ health.error_counts["Transaction"] >= 1
    /\ stats.sequencer_api_failures >= 1
    /\ stats.total_anchored >= 1

\* C33: while the breaker is open no commit_batch call and no fetch of the
\* pending list is issued, the rest of the cycle in which it opened
\* included.
C33_OpenBreakerSuspendsWork ==
    [][breaker.state = "open" =>
          /\ calls'.fetch <= calls.fetch
          /\ \A i \in BatchIds : calls'.commit[i] <= calls.commit[i]]_vars

\* C34: the severity of every error is the one the table gives (Config and
\* Authorization Fatal; L2Connection Transient, but ChainIdMismatch and
\* NotInitialized Fatal; SequencerApi Transient for ConnectionFailed,
\* Timeout and HttpError with a status of 500 or more, Warning for every
\* other leaf; Transaction Transient for SubmissionFailed, NonceError,
\* ConfirmationTimeout and GasPriceTooHigh, Warning for Reverted, Critical
\* for InsufficientFunds, EncodingError and InvalidBytes32; Internal
\* Critical), and an error is retryable exactly when it is Transient.
TableSeverity(e) ==
    CASE e.category \in {"Config", "Authorization"} -> "Fatal"
      [] e.category = "L2Connection" ->
            IF e.leaf \in {"ChainIdMismatch", "NotInitialized"}
            THEN "Fatal" ELSE "Transient"
      [] e.category = "SequencerApi" ->
            IF \/ e.leaf \in {"ConnectionFailed", "Timeout"}
               \/ e.leaf = "HttpError" /\ e.status >= 500
            THEN "Transient" ELSE "Warning"
      [] e.category = "Transaction" ->
            IF e.leaf \in {"SubmissionFailed", "NonceError",
                           "ConfirmationTimeout", "GasPriceTooHigh"}
            THEN "Transient"
            ELSE IF e.leaf = "Reverted" THEN "Warning" ELSE "Critical"
      [] e.category = "Internal" -> "Critical"
C34_ErrorTaxonomy ==
    \A i \in 1..Len(served.recent_errors) :
        LET r == served.recent_errors[i].leaf IN
        /\ r.severity = TableSeverity(r.error)
        /\ r.is_retryable = (r.severity = "Transient")

\* C35: notify_anchored is reached only from a commit_batch that has just
\* returned its receipt, for the batch of that attempt; the call carries
\* that receipt's transaction hash, block number and gas used; the batch is
\* at or above the threshold and within the per-cycle cap; and no batch has
\* more notifications sent than commit_batch calls that succeeded.
NotifyReached == pc' = "notify" /\ pc # "notify"
NotifySent == pc = "notify" /\ pc' # "notify"
LastSent == calls'.sent[Len(calls'.sent)]
C35_NotifiedOnlyAfterCommit ==
    /\ [][NotifyReached =>
            /\ pc = "receipt"
            /\ loc.pending_tx # None
            /\ loc'.receipt = loc.pending_tx
            /\ loc.pending_tx[1].transaction_hash[1] = CurrentBatch
            /\ CurrentBatch \in committed
            /\ loc'.idx = loc.idx /\ loc'.attempt = loc.attempt]_vars
    /\ [][NotifySent =>
            /\ Len(calls'.sent) = Len(calls.sent) + 1
            /\ LastSent.batch_id = CurrentBatch
            /\ LastSent.notification.chain_tx_hash =
                   TxHashHex(loc.receipt[1].transaction_hash)
            /\ LastSent.notification.block_number =
                   Some(loc.receipt[1].block_number)
            /\ LastSent.notification.gas_used = Some(loc.receipt[1].gas_used)
            /\ calls.commit_ok[CurrentBatch] =
                   Cardinality(SentFor(CurrentBatch)) + 1
            /\ ~BelowThreshold(loc.commitments[loc.idx])
            /\ Cap > 0 => loc.idx <= Cap]_vars
    /\ [][pc # "notify" \/ pc' = "notify" => calls'.sent = calls.sent
              \/ calls' = [NoCalls EXCEPT !.cycle_mark = calls'.cycle_mark]]_vars
    /\ [](\A i \in BatchIds :
            /\ Cardinality(SentFor(i)) <= calls.commit_ok[i]
            /\ calls.commit_ok[i] <= calls.commit[i]
            /\ SentFor(i) # {} => i \in committed)

\* The second batch of a cycle notified after the first failed all its
\* attempts and got no notification.
C35_Witness ==
    /\ pc = "rs_breaker"
    /\ CurrentBatch = 2
    /\ calls.commit[1] = max_retries
    /\ calls.commit_ok[1] = 0
    /\ SentFor(1) = {}
    /\ Cardinality(SentFor(2)) = 1

\* C36: the statistics, as any reader of the statistics lock finds them
\* between two critical sections of the loop, never show the breaker closed
\* together with consecutive_failures at or above failure_threshold.
C36_SnapshotConsistent ==
    stats.circuit_breaker_state = "closed" =>
        stats.consecutive_failures < breaker.failure_threshold

\* The cycle's fetch succeeded and no batch of it was tried: the list was
\* empty, or every batch so far was below the threshold.
QuietCycle ==
    /\ pc \in {"next_batch", "cycle_ok", "sleep"}
    /\ calls.fetch = 1
    /\ stats.sequencer_api_failures = calls.cycle_mark.sequencer_api_failures
    /\ calls.exhausted = 0
    /\ \A i \in BatchIds : calls.commit[i] = 0

\* A step of the cycle after allow_request that neither records a failure
\* nor tries a batch.
QuietStep ==
    /\ pc \in {"allowed", "gas_price", "fetch", "next_batch", "cycle_ok",
               "sleep"}
    /\ pc' \in {"gas_price", "fetch", "next_batch", "cycle_ok", "sleep",
                "cycle_start"}

\* C37: a cycle whose fetch succeeds and in which no batch is anchored (the
\* list is empty, or every batch is below the threshold) leaves
\* consecutive_failures, total_failed and total_anchored as the cycle found
\* them, and the breaker's state and half-open success count as
\* allow_request left them before the cycle's work; consecutive_failures
\* goes down, and the breaker counts a success, only in record_success,
\* which follows a successful commitBatch of the current batch.
C37_QuietCycleLeavesCounters ==
    /\ [](QuietCycle =>
            /\ stats.consecutive_failures =
                   calls.cycle_mark.consecutive_failures
            /\ stats.total_failed = calls.cycle_mark.total_failed
            /\ stats.total_anchored = calls.cycle_mark.total_anchored
            /\ breaker.state = loc.breaker_state)
    /\ [][QuietStep => breaker' = breaker]_vars
    /\ [][/\ pc \notin {"stopped", "failed"}
          /\ stats'.consecutive_failures < stats.consecutive_failures
          => /\ pc = "rs_stats"
             /\ calls.commit_ok[loc.commitments[loc.idx].batch_id] >= 1]_vars
    /\ [][/\ pc \notin {"stopped", "failed"}
          /\ \/ breaker'.half_open_success_count >
                    breaker.half_open_success_count
             \/ breaker.state = "half-open" /\ breaker'.state = "closed"
          => /\ pc = "rs_breaker"
             /\ calls.commit_ok[loc.commitments[loc.idx].batch_id] >= 1]_vars

\* The breaker is probing after two failed cycles, and the probing cycle
\* fetched a list with nothing to anchor in it.
C37_Witness ==
    /\ QuietCycle
    /\ pc = "sleep"
    /\ breaker.state = "half-open"
    /\ stats.consecutive_failures >= 1
    /\ stats.total_failed >= 1

\* C38: in every reachable state total_failed <= total_cycles, so the
\* subtraction in uptime_percent does not overflow and uptime_percent is a
\* value between 0 and 100.
C38_FailuresWithinCycles ==
    /\ stats.total_failed <= stats.total_cycles
    /\ uptime_percent(stats) # None
    /\ uptime_percent(stats)[1] \in 0..100

\* C39: in every reachable state of the breaker half_open_success_count is 0
\* while the state is closed or open, and below
\* half_open_success_threshold while the state is half-open.
C39_HalfOpenCountBounded ==
    /\ breaker.half_open_success_threshold >= 1
    /\ breaker.state \in {"closed", "open"} =>
           breaker.half_open_success_count = 0
    /\ breaker.state = "half-open" =>
           breaker.half_open_success_count <
               breaker.half_open_success_threshold

\* A probing breaker that has counted a success and waits for the next.
C39_Witness ==
    /\ breaker.state = "half-open"
    /\ breaker.half_open_success_count >= 1
    /\ stats.total_anchored >= 1

\* The three fields of the statistics that describe the counted batches.
Counted(s) == <<s.total_anchored, s.total_events_anchored, s.last_batch_id>>

\* C40: in every snapshot of the statistics total_events_anchored is the
\* sum of event_count over the batches counted in total_anchored and
\* last_batch_id is the most recently counted batch.  The three fields
\* start at 0, 0 and none; the one step that changes any of them is the
\* statistics' critical section of record_success, which counts the current
\* batch, adds its event_count and takes its id; so a snapshot with no batch
\* counted has no events and no id, and one with a batch counted has both.
C40_CountedBatches ==
    /\ [][pc = "rs_stats" /\ pc' # pc =>
            /\ stats'.total_anchored = stats.total_anchored + 1
            /\ stats'.total_events_anchored =
                   stats.total_events_anchored
                       + loc.commitments[loc.idx].event_count
            /\ stats'.last_batch_id =
                   Some(loc.commitments[loc.idx].batch_id)]_vars
    /\ [][pc \notin {"stopped", "failed"} /\ ~(pc = "rs_stats" /\ pc' # pc) =>
            Counted(stats') = Counted(stats)]_vars
    /\ [](stats.total_anchored = 0 =>
            stats.total_events_anchored = 0 /\ stats.last_batch_id = None)
    /\ [](stats.total_anchored > 0 =>
            /\ stats.last_batch_id # None
            /\ stats.last_batch_id[1] \in committed
            /\ stats.total_events_anchored >=
                   stats.total_anchored * min_events_for_anchor)

\* Both batches of the backlog are counted, the second one last.
C40_Witness ==
    /\ stats.total_anchored = 2
    /\ stats.total_events_anchored = 20
    /\ stats.last_batch_id = Some(2)

====
